---- MODULE Spec2Model ----
(***************************************************************************)
(* A model of sharg::detail::format_parse                                  *)
(* (src/include/sharg/detail/format_parse.hpp): the token buffer, the      *)
(* deferred retrieval calls and the phases of format_parse::parse().       *)
(*                                                                         *)
(* A std::string is a sequence of one-character strings, so that prefixes, *)
(* substrings and single characters are what they are in the code.  The    *)
(* empty sequence is the empty string, the sentinel of a consumed token.   *)
(* An iterator into `arguments` is an index 1..Len(arguments)+1, the last  *)
(* one being arguments.end().                                              *)
(***************************************************************************)
EXTENDS Integers, Sequences, FiniteSets, TLC

VARIABLES
    enumeration_names,        \* sharg::enumeration_names<option_t>, in iteration order
    cmd_arguments,            \* the constructor's parameter, as passed in
    arguments,                \* format_parse::arguments
    end_of_options_it,        \* format_parse::end_of_options_it
    option_calls,             \* format_parse::option_calls (the captured configs)
    flag_calls,               \* format_parse::flag_calls
    positional_option_calls,  \* format_parse::positional_option_calls
    opt_value,                \* the targets bound by add_option, one per call
    flag_value,               \* the bool targets bound by add_flag, by target name
    pos_value,                \* the targets bound by add_positional_option
    positional_option_count,  \* format_parse::positional_option_count
    pc,                       \* the statement of parse() that runs next
    idx,                      \* the position in the call list of the running loop
    error,                    \* the exception that left parse(), if any
    pre_call,                 \* the targets' values before parse() was called
    history,                  \* the statements of parse() run so far, in order
    frame                     \* the locals of the retrieval call whose while loop runs

vars == <<enumeration_names, cmd_arguments, arguments, end_of_options_it, option_calls, flag_calls,
          positional_option_calls, opt_value, flag_value, pos_value,
          positional_option_count, pc, idx, error, pre_call, history, frame>>

----------------------------------------------------------------------------
(* Strings *)

\* The character '\0': what std::string::operator[] yields at size(), and the
\* short identifier of an entity declared without one.
NUL == "NUL"

Empty == <<>>

Dash == "-"

\* s[i] of the code, zero-based; s[size()] is '\0'.
CharAt(s, i) == IF i < Len(s) THEN s[i + 1] ELSE NUL

\* std::string_view::starts_with
StartsWith(s, p) == Len(s) >= Len(p) /\ SubSeq(s, 1, Len(p)) = p

\* std::string::substr(pos), zero-based pos <= size()
Substr(s, pos) == SubSeq(s, pos + 1, Len(s))

\* std::string::find(char): the zero-based position of the first c, or -1 (npos)
StrFind(s, c) ==
    IF \E i \in 1..Len(s) : s[i] = c
    THEN (CHOOSE i \in 1..Len(s) : s[i] = c /\ \A j \in 1..(i - 1) : s[j] # c) - 1
    ELSE -1

\* std::string::erase(pos)
StrEraseToEnd(s, pos) == SubSeq(s, 1, pos)

\* std::string::erase(pos, 1)
StrErase(s, pos) == SubSeq(s, 1, pos) \o SubSeq(s, pos + 2, Len(s))

\* The token is left as it is.
KeepToken(args, it) == args

\* The token is removed and the later tokens move up.
BlankAndMoveUp(args, it) ==
    SubSeq(args, 1, it - 1) \o SubSeq(args, it + 1, Len(args)) \o <<Empty>>

\* *it = ""
Blank(args, it) == [args EXCEPT ![it] = Empty]

----------------------------------------------------------------------------
(* Exceptions *)

\* An exception: its class (kind), the fixed part of its message (msg), the
\* identifier or positional it names (name), the input text it quotes (arg)
\* the number it prints (n) and the list of keys it prints (keys).
NoError ==
    [kind |-> "none", msg |-> "", name |-> Empty, arg |-> Empty, n |-> 0, keys |-> <<>>]

Throw(kind, msg, name, arg, n) ==
    [kind |-> kind, msg |-> msg, name |-> name, arg |-> arg, n |-> n, keys |-> <<>>]

----------------------------------------------------------------------------
(* Identifiers *)

\* The id_pair an identifier of type char converts to.
ShortId(c) == [is_short |-> TRUE, short_id |-> c, long_id |-> Empty]

\* The id_pair an identifier of type std::string converts to.
LongId(l) == [is_short |-> FALSE, short_id |-> NUL, long_id |-> l]

prepend_dash_long(long_id) == <<Dash, Dash>> \o long_id

prepend_dash_short(short_id) == <<Dash, short_id>>

\* prepend_dash(id) for id of type char or std::string
prepend_dash(id) ==
    IF id.is_short THEN prepend_dash_short(id.short_id)
                   ELSE prepend_dash_long(id.long_id)

combine_option_names(short_id, long_id) ==
    IF short_id = NUL THEN prepend_dash_long(long_id)
    ELSE IF long_id = Empty THEN prepend_dash_short(short_id)
    ELSE prepend_dash_short(short_id) \o <<"/">> \o prepend_dash_long(long_id)

\* A comparison that takes every token beginning with the long identifier.
IdMatchesPrefix(id, current_arg) ==
    \/ id.short_id # NUL /\ StartsWith(current_arg, prepend_dash_short(id.short_id))
    \/ id.long_id # Empty /\ StartsWith(current_arg, prepend_dash_long(id.long_id))

\* The lambda cmp of find_option_id.
IdMatches(id, current_arg) ==
    \/ id.short_id # NUL /\ StartsWith(current_arg, prepend_dash_short(id.short_id))
    \/ /\ id.long_id # Empty
       /\ \/ current_arg = prepend_dash_long(id.long_id)
          \/ StartsWith(current_arg, prepend_dash_long(id.long_id) \o <<"=">>)

\* std::find_if(begin_it, end_it, pred): the first position in [begin_it, end_it)
\* among hits, the positions whose element satisfies pred, or end_it.
FindIf(hits, begin_it, end_it) ==
    IF \E i \in begin_it..(end_it - 1) : i \in hits
    THEN CHOOSE i \in begin_it..(end_it - 1) :
             i \in hits /\ \A j \in begin_it..(i - 1) : j \notin hits
    ELSE end_it

find_option_id(args, begin_it, end_it, id) ==
    IF id.short_id = NUL /\ id.long_id = Empty
    THEN end_it
    ELSE FindIf({i \in 1..Len(args) : IdMatches(id, args[i])}, begin_it, end_it)

----------------------------------------------------------------------------
(* Value coercion.  A target of type std::string holds a string, a target  *)
(* of type bool a BOOLEAN, a container a sequence of its element type.     *)

DefaultValue(type) ==
    IF type = "bool" THEN FALSE ELSE IF type \in {"uint8", "enum"} THEN 0 ELSE Empty

Digits == <<"0", "1", "2", "3", "4", "5", "6", "7", "8", "9">>

IsDigit(c) == \E d \in 1..10 : Digits[d] = c

DigitValue(c) == (CHOOSE d \in 1..10 : Digits[d] = c) - 1

\* The number of characters of s, from the first on, that are digits.
RECURSIVE DigitsPrefix(_)
DigitsPrefix(s) ==
    IF s = Empty \/ ~IsDigit(s[1]) THEN 0 ELSE 1 + DigitsPrefix(Tail(s))

\* The number the first n characters of s, all digits, are the numeral of.
RECURSIVE Accumulate(_, _)
Accumulate(s, n) ==
    IF n = 0 THEN 0 ELSE 10 * Accumulate(s, n - 1) + DigitValue(s[n])

\* std::numeric_limits<std::uint8_t>::max(), one more.
IntegerMaxOffByOne(type) == 256

\* std::numeric_limits<option_t>::max()
IntegerMax(type) == 255

\* std::from_chars(first, last, value) for an unsigned integer and base 10:
\* the longest run of digits is the numeral, no sign and no blank is taken,
\* value is written only when the numeral is in range, and ptr is how many
\* characters were read.
from_chars(in, value, type) ==
    LET Converted(n, number) ==
            IF n = 0
            THEN [ec |-> "invalid_argument", ptr |-> 0, value |-> value]
            ELSE IF number > IntegerMax(type)
            THEN [ec |-> "result_out_of_range", ptr |-> n, value |-> value]
            ELSE [ec |-> "none", ptr |-> n, value |-> number]
        Read(n) == Converted(n, Accumulate(in, n))
    IN  Read(DigitsPrefix(in))

\* parse_option_value for an arithmetic option_t
parse_arithmetic_value(value, in, type) ==
    LET Result(r) ==
            IF r.ec = "result_out_of_range"
            THEN [res |-> "overflow_error", value |-> r.value]
            ELSE IF r.ec = "invalid_argument" \/ r.ptr # Len(in)
            THEN [res |-> "error", value |-> r.value]
            ELSE [res |-> "success", value |-> r.value]
    IN  Result(from_chars(in, value, type))

\* The order of characters.
CharOrder == <<"a", "b", "c", "z">>

CharLess(c, d) ==
    \E i, j \in 1..Len(CharOrder) : i < j /\ CharOrder[i] = c /\ CharOrder[j] = d

\* std::string_view's operator<
RECURSIVE StrLess(_, _)
StrLess(s, t) ==
    IF t = Empty THEN FALSE
    ELSE IF s = Empty THEN TRUE
    ELSE IF s[1] # t[1] THEN CharLess(s[1], t[1])
    ELSE StrLess(Tail(s), Tail(t))

\* A comparison by the values only.
PairLessByValue(pair1, pair2) == pair1.second < pair2.second

\* The comparison the keys are sorted with: by value, and by name among
\* equal values.
PairLess(pair1, pair2) ==
    IF pair1.second # pair2.second THEN pair1.second < pair2.second
    ELSE StrLess(pair1.first, pair2.first)

\* std::sort, as the insertion of each element in turn before the first
\* element it is less than.
RECURSIVE Insert(_, _)
Insert(sorted, pair) ==
    IF sorted = <<>> THEN <<pair>>
    ELSE IF PairLess(pair, sorted[1]) THEN <<pair>> \o sorted
    ELSE <<sorted[1]>> \o Insert(Tail(sorted), pair)

RECURSIVE Sort(_)
Sort(key_value_pairs) ==
    IF key_value_pairs = <<>> THEN <<>>
    ELSE Insert(Sort(SubSeq(key_value_pairs, 1, Len(key_value_pairs) - 1)),
                key_value_pairs[Len(key_value_pairs)])

\* The keys the message lists: those of the sorted pairs.
SortedKeys(map) == [i \in 1..Len(map) |-> Sort(map)[i].first]

\* parse_option_value for a named_enumeration: the value of the key in, or
\* the exception that leaves it.
parse_enumeration_value(value, in, map) ==
    IF \E i \in 1..Len(map) : map[i].first = in
    THEN [res |-> "success",
          value |-> map[CHOOSE i \in 1..Len(map) : map[i].first = in].second]
    ELSE [res |-> "threw", value |-> value,
          err |-> [Throw("user_input_error", "You have chosen an invalid input value",
                         Empty, in, 0) EXCEPT !.keys = SortedKeys(map)]]

\* parse_option_value for a std::string, a bool or an arithmetic target: the
\* result and the value the target holds afterwards.
parse_scalar_value(value, in, type) ==
    IF type = "bool"
    THEN IF in = <<"0">> THEN [res |-> "success", value |-> FALSE]
         ELSE IF in = <<"1">> THEN [res |-> "success", value |-> TRUE]
         ELSE IF in = <<"t", "r", "u", "e">> THEN [res |-> "success", value |-> TRUE]
         ELSE IF in = <<"f", "a", "l", "s", "e">> THEN [res |-> "success", value |-> FALSE]
         ELSE [res |-> "error", value |-> value]
    ELSE IF type = "uint8" THEN parse_arithmetic_value(value, in, type)
    ELSE IF type = "enum" THEN parse_enumeration_value(value, in, enumeration_names)
    ELSE [res |-> "success", value |-> in]

\* parse_option_value, dispatched on the target's type: the container overload
\* parses into a temporary and appends it on success.
parse_option_value(value, in, type, container) ==
    IF container
    THEN LET r == parse_scalar_value(DefaultValue(type), in, type)
         IN  IF r.res = "success"
             THEN [res |-> "success", value |-> Append(value, r.value)]
             ELSE [r EXCEPT !.value = value]
    ELSE parse_scalar_value(value, in, type)

\* throw_on_input_error: the exception thrown for res, NoError for success.
throw_on_input_error(res, option_name, input_value) ==
    IF res = "error"
    THEN Throw("user_input_error", "could not be parsed as type", option_name,
               input_value, 0)
    ELSE IF res = "overflow_error"
    THEN Throw("user_input_error", "is not in the valid range", option_name,
               input_value, 0)
    ELSE NoError

\* parse_option_value followed by throw_on_input_error: the exception that
\* left the first, or else the one the second throws for its result r.res.
input_error(r, option_name, input_value) ==
    IF r.res = "threw" THEN r.err
    ELSE throw_on_input_error(r.res, option_name, input_value)

----------------------------------------------------------------------------
(* Options.  An operation that can throw yields a record: err is the       *)
(* exception (NoError when it returned), and args and value are the token  *)
(* buffer and the target as the operation left them, also when it threw.   *)

\* The value held by a token longer than its identifier: what follows '=' in
\* -key=value, what follows the identifier in -keyValue.
attached_value_keeps_equals(tok, id_size) == Substr(tok, id_size)

attached_value(tok, id_size) ==
    IF CharAt(tok, id_size) = "=" THEN Substr(tok, id_size + 1)
                                  ELSE Substr(tok, id_size)

\* The same with -key= read as the empty value.
identify_and_retrieve_option_value_empty(args, eoo, value, option_it, id, type, container) ==
    LET id_size == Len(prepend_dash(id))
        tok == args[option_it]
        Retrieve(attached, equals) ==
            LET it == IF attached THEN option_it ELSE option_it + 1
                missing == ~attached /\ option_it + 1 = eoo
                args1 == IF attached /\ missing THEN args ELSE Blank(args, option_it)
                input_value == IF attached THEN attached_value(tok, id_size)
                               ELSE args[it]
                Parsed(r) ==
                    [args |-> IF attached THEN args1 ELSE Blank(args1, it),
                     value |-> r.value, it |-> it,
                     err |-> input_error(r, prepend_dash(id), input_value)]
            IN  IF missing
                THEN [args |-> args1, value |-> value, it |-> it,
                      err |-> Throw("too_few_arguments", "Missing value for option",
                                    prepend_dash(id), Empty, 0)]
                ELSE Parsed(parse_option_value(value, input_value, type, container))
    IN  Retrieve(Len(tok) > id_size, Len(tok) > id_size /\ CharAt(tok, id_size) = "=")

\* The next token is a value only when it is not empty and begins with no dash.
identify_and_retrieve_option_value_plain(args, eoo, value, option_it, id, type, container) ==
    LET id_size == Len(prepend_dash(id))
        tok == args[option_it]
        Retrieve(attached, equals) ==
            LET it == IF attached THEN option_it ELSE option_it + 1
                missing == IF attached THEN equals /\ Len(tok) = id_size + 1
                           ELSE \/ option_it + 1 = eoo
                                \/ args[option_it + 1] = Empty
                                \/ CharAt(args[option_it + 1], 0) = Dash
                args1 == IF attached /\ missing THEN args ELSE Blank(args, option_it)
                input_value == IF attached THEN attached_value(tok, id_size)
                               ELSE args[it]
                Parsed(r) ==
                    [args |-> IF attached THEN args1 ELSE Blank(args1, it),
                     value |-> r.value, it |-> it,
                     err |-> input_error(r, prepend_dash(id), input_value)]
            IN  IF missing
                THEN [args |-> args1, value |-> value, it |-> it,
                      err |-> Throw("too_few_arguments", "Missing value for option",
                                    prepend_dash(id), Empty, 0)]
                ELSE Parsed(parse_option_value(value, input_value, type, container))
    IN  Retrieve(Len(tok) > id_size, Len(tok) > id_size /\ CharAt(tok, id_size) = "=")

\* identify_and_retrieve_option_value, called with option_it # end_of_options_it.
\* it is option_it afterwards (the parameter is a reference).
identify_and_retrieve_option_value(args, eoo, value, option_it, id, type, container) ==
    LET id_size == Len(prepend_dash(id))
        tok == args[option_it]
        Retrieve(attached, equals) ==
            LET it == IF attached THEN option_it ELSE option_it + 1
                missing == IF attached THEN equals /\ Len(tok) = id_size + 1
                                       ELSE option_it + 1 = eoo
                \* -key=value with nothing after '=' throws before the token is removed
                args1 == IF attached /\ missing THEN args ELSE Blank(args, option_it)
                input_value == IF attached THEN attached_value(tok, id_size)
                               ELSE args[it]
                Parsed(r) ==
                    [args |-> IF attached THEN args1 ELSE Blank(args1, it),
                     value |-> r.value, it |-> it,
                     err |-> input_error(r, prepend_dash(id), input_value)]
            IN  IF missing
                THEN [args |-> args1, value |-> value, it |-> it,
                      err |-> Throw("too_few_arguments", "Missing value for option",
                                    prepend_dash(id), Empty, 0)]
                ELSE Parsed(parse_option_value(value, input_value, type, container))
    IN  Retrieve(Len(tok) > id_size, Len(tok) > id_size /\ CharAt(tok, id_size) = "=")

\* get_option_by_id for a non-container with no second lookup.
get_option_by_id_scalar_once(args, eoo, value, id, type) ==
    LET Again(it, r) ==
            [args |-> r.args, value |-> r.value,
             found |-> it # eoo /\ r.err = NoError, err |-> r.err]
        First(it) ==
            Again(it,
                  IF it # eoo
                  THEN identify_and_retrieve_option_value(args, eoo, value, it, id,
                                                          type, FALSE)
                  ELSE [args |-> args, value |-> value, it |-> it, err |-> NoError])
    IN  First(find_option_id(args, 1, eoo, id))

\* get_option_by_id for a non-container option_type; found is its return value.
get_option_by_id_scalar(args, eoo, value, id, type) ==
    LET Again(it, r) ==
            IF r.err # NoError
            THEN [args |-> r.args, value |-> r.value, found |-> FALSE, err |-> r.err]
            ELSE IF find_option_id(r.args, r.it, eoo, id) # eoo
            THEN [args |-> r.args, value |-> r.value, found |-> FALSE,
                  err |-> Throw("option_declared_multiple_times",
                                "is no list/container but declared multiple times",
                                prepend_dash(id), Empty, 0)]
            ELSE [args |-> r.args, value |-> r.value, found |-> it # eoo,
                  err |-> NoError]
        First(it) ==
            Again(it,
                  IF it # eoo
                  THEN identify_and_retrieve_option_value(args, eoo, value, it, id,
                                                          type, FALSE)
                  ELSE [args |-> args, value |-> value, it |-> it, err |-> NoError])
    IN  First(find_option_id(args, 1, eoo, id))

\* The while loop of get_option_by_id for a container, entered with iterator it.
RECURSIVE container_loop(_, _, _, _, _, _)
container_loop(args, eoo, value, it, id, type) ==
    LET Iterate(r) ==
            IF r.err # NoError
            THEN [args |-> r.args, value |-> r.value, err |-> r.err]
            ELSE container_loop(r.args, eoo, r.value,
                                find_option_id(r.args, r.it, eoo, id), id, type)
    IN  IF it = eoo
        THEN [args |-> args, value |-> value, err |-> NoError]
        ELSE Iterate(identify_and_retrieve_option_value(args, eoo, value, it, id,
                                                        type, TRUE))

\* get_option_by_id for a container with value.clear() ahead of the lookup.
get_option_by_id_container_clears(args, eoo, value, id, type) ==
    LET Result(seen_at_least_once, r) ==
            [args |-> r.args, value |-> r.value,
             found |-> seen_at_least_once /\ r.err = NoError, err |-> r.err]
        Loop(it) ==
            Result(it # eoo, container_loop(args, eoo, Empty, it, id, type))
    IN  Loop(find_option_id(args, 1, eoo, id))

\* get_option_by_id for a container option_type
get_option_by_id_container(args, eoo, value, id, type) ==
    LET Result(seen_at_least_once, r) ==
            [args |-> r.args, value |-> r.value,
             found |-> seen_at_least_once /\ r.err = NoError, err |-> r.err]
        Loop(it) ==
            Result(it # eoo,
                   container_loop(args, eoo, IF it # eoo THEN Empty ELSE value,
                                  it, id, type))
    IN  Loop(find_option_id(args, 1, eoo, id))

\* The overload of get_option_by_id chosen by option_type.
get_option_by_id(args, eoo, value, id, type, container) ==
    IF container THEN get_option_by_id_container(args, eoo, value, id, type)
                 ELSE get_option_by_id_scalar(args, eoo, value, id, type)

\* config.validator(value): the validator is given by the values it rejects.
validator_throws(config, value) == value \in config.rejects

\* The checks of get_option with every option taken as required.
get_option_checks_all_required(short_id_is_set, long_id_is_set, value, config) ==
    LET name == combine_option_names(config.short_id, config.long_id)
    IN  IF short_id_is_set /\ long_id_is_set /\ ~config.container
        THEN Throw("option_declared_multiple_times",
                   "is no list/container but specified multiple times", name, Empty, 0)
        ELSE IF short_id_is_set \/ long_id_is_set
        THEN IF validator_throws(config, value)
             THEN Throw("validation_error", "Validation failed for option", name,
                        Empty, 0)
             ELSE NoError
        ELSE Throw("required_option_missing", "is required but not set", name, Empty, 0)

get_option_checks_either_id(short_id_is_set, long_id_is_set, value, config) ==
    LET name == combine_option_names(config.short_id, config.long_id)
    IN  IF short_id_is_set \/ long_id_is_set
        THEN IF validator_throws(config, value)
             THEN Throw("validation_error", "Validation failed for option", name,
                        Empty, 0)
             ELSE NoError
        ELSE IF config.required
        THEN Throw("required_option_missing", "is required but not set", name, Empty, 0)
        ELSE NoError

\* What get_option does once both identifiers were looked up: the exception it
\* throws, NoError when it returns.
get_option_checks(short_id_is_set, long_id_is_set, value, config) ==
    LET name == combine_option_names(config.short_id, config.long_id)
    IN  IF short_id_is_set /\ long_id_is_set /\ ~config.container
        THEN Throw("option_declared_multiple_times",
                   "is no list/container but specified multiple times", name, Empty, 0)
        ELSE IF short_id_is_set \/ long_id_is_set
        THEN IF validator_throws(config, value)
             THEN Throw("validation_error", "Validation failed for option", name,
                        Empty, 0)
             ELSE NoError
        ELSE IF config.required
        THEN Throw("required_option_missing", "is required but not set", name, Empty, 0)
        ELSE NoError

\* get_option: s and l are what get_option_by_id did for the short and for the
\* long identifier.
get_option(args, eoo, value, config) ==
    LET Decide(s, l) ==
            IF l.err # NoError THEN [args |-> l.args, value |-> l.value, err |-> l.err]
            ELSE [args |-> l.args, value |-> l.value,
                  err |-> get_option_checks(s.found, l.found, l.value, config)]
        Long(s) ==
            IF s.err # NoError THEN [args |-> s.args, value |-> s.value, err |-> s.err]
            ELSE Decide(s, get_option_by_id(s.args, eoo, s.value,
                                            LongId(config.long_id),
                                            config.type, config.container))
    IN  Long(get_option_by_id(args, eoo, value, ShortId(config.short_id),
                              config.type, config.container))

----------------------------------------------------------------------------
(* Flags *)

\* flag_is_set(std::string const & long_id)
flag_is_set_long(args, eoo, long_id) ==
    LET Remove(it) == [args |-> IF it # eoo THEN Blank(args, it) ELSE args,
                       found |-> it # eoo]
    IN  Remove(FindIf({i \in 1..Len(args) : args[i] = prepend_dash_long(long_id)},
                      1, eoo))

\* The condition of flag_is_set(char) on one argument: a single-dash token
\* that holds short_id.
HoldsShortFlag(arg, short_id) ==
    /\ CharAt(arg, 0) = Dash
    /\ Len(arg) > 1
    /\ CharAt(arg, 1) # Dash
    /\ StrFind(arg, short_id) # -1

\* The arguments the loop of flag_is_set(char) visits.
ShortFlagRange(args, eoo) == 1..Len(args)

\* flag_is_set(char const short_id)
flag_is_set_short(args, eoo, short_id) ==
    LET Erase(i, erased) ==
            [args |-> [args EXCEPT ![i] = IF erased = <<Dash>> THEN Empty ELSE erased],
             found |-> TRUE]
        Visit(hits) ==
            IF hits = {}
            THEN [args |-> args, found |-> FALSE]
            ELSE LET First(i) == Erase(i, StrErase(args[i], StrFind(args[i], short_id)))
                 IN  First(CHOOSE k \in hits : \A j \in hits : k <= j)
    IN  Visit({i \in ShortFlagRange(args, eoo) : HoldsShortFlag(args[i], short_id)})

\* Both forms are searched and removed.
get_flag_both_forms(args, eoo, value, short_id, long_id) ==
    LET Long(s, l) == [args |-> l.args, value |-> s.found \/ l.found \/ value]
        Short(s) == Long(s, flag_is_set_long(s.args, eoo, long_id))
    IN  Short(flag_is_set_short(args, eoo, short_id))

\* value = flag_is_set(short_id) || flag_is_set(long_id)
get_flag_overwrites(args, eoo, value, short_id, long_id) ==
    LET Long(l) == [args |-> l.args, value |-> l.found]
        Short(s) == IF s.found THEN [args |-> s.args, value |-> TRUE]
                    ELSE Long(flag_is_set_long(s.args, eoo, long_id))
    IN  Short(flag_is_set_short(args, eoo, short_id))

\* get_flag: the operands of || are evaluated left to right and only as needed.
get_flag(args, eoo, value, short_id, long_id) ==
    LET Long(l) == [args |-> l.args, value |-> l.found \/ value]
        Short(s) == IF s.found THEN [args |-> s.args, value |-> TRUE]
                    ELSE Long(flag_is_set_long(s.args, eoo, long_id))
    IN  Short(flag_is_set_short(args, eoo, short_id))

----------------------------------------------------------------------------
(* The checks of parse() *)

\* An argument that may be an identifier.
IsUnknownIdOrDash(arg) == arg # Empty /\ CharAt(arg, 0) = Dash

\* An argument check_for_unknown_ids throws for.
IsUnknownId(arg) == arg # Empty /\ CharAt(arg, 0) = Dash /\ arg # <<Dash>>

\* check_for_unknown_ids: the exception thrown, NoError when it returns.
check_for_unknown_ids(args, eoo) ==
    LET Check(it) ==
            IF it = eoo THEN NoError
            ELSE IF CharAt(args[it], 1) # Dash /\ Len(args[it]) > 2
            THEN Throw("unknown_option", "Unknown flags", Empty, args[it], 0)
            ELSE Throw("unknown_option", "Unknown option", Empty, args[it], 0)
    IN  Check(FindIf({i \in 1..Len(args) : IsUnknownId(args[i])}, 1, eoo))

\* A predicate every string satisfies.
AnyString(s) == TRUE

\* s != ""
NonEmpty(s) == s # Empty

\* The range up to end_of_options_it.
LeftOverEndAtMarker(args, eoo) == eoo

\* The range check_for_left_over_args searches.
LeftOverEnd(args, eoo) == Len(args) + 1

\* check_for_left_over_args
check_for_left_over_args(args, eoo) ==
    IF FindIf({i \in 1..Len(args) : NonEmpty(args[i])}, 1, LeftOverEnd(args, eoo))
           # LeftOverEnd(args, eoo)
    THEN Throw("too_many_arguments", "Too many arguments provided", Empty, Empty, 0)
    ELSE NoError

----------------------------------------------------------------------------
(* Positional options *)

\* The while loop of get_positional_option for a container, entered with
\* iterator it and the counter at count.
RECURSIVE positional_loop(_, _, _, _, _)
positional_loop(args, value, it, count, type) ==
    LET Removed(args1, value1) ==
            positional_loop(args1, value1,
                            FindIf({i \in 1..Len(args1) : NonEmpty(args1[i])},
                                   it, Len(args1) + 1),
                            count + 1, type)
        Parsed(r, e) ==
            IF e # NoError
            THEN [args |-> args, value |-> r.value, count |-> count,
                  err |-> [e EXCEPT !.n = IF e.name = Empty THEN 0 ELSE count]]
            ELSE Removed(Blank(args, it), r.value)
        Checked(r) ==
            Parsed(r, input_error(r, <<"positional option">>, args[it]))
    IN  IF it = Len(args) + 1
        THEN [args |-> args, value |-> value, count |-> count, err |-> NoError]
        ELSE Checked(parse_option_value(value, args[it], type, TRUE))

\* The exception names the values taken so far.
not_enough_positionals_counted(args, value, count, config, n_calls) ==
    [args |-> args, value |-> value, count |-> count,
     err |-> Throw("too_few_arguments", "Not enough positional arguments provided",
                   Empty, Empty, count)]

\* The container is cleared before the exception.
not_enough_positionals_cleared(args, value, count, config, n_calls) ==
    [args |-> args, value |-> IF config.container THEN Empty ELSE value,
     count |-> count,
     err |-> Throw("too_few_arguments", "Not enough positional arguments provided",
                   Empty, Empty, n_calls)]

\* get_positional_option when find_if returns arguments.end(): the exception
\* names positional_option_calls.size() and the target is left as it is.
not_enough_positionals(args, value, count, config, n_calls) ==
    [args |-> args, value |-> value, count |-> count,
     err |-> Throw("too_few_arguments", "Not enough positional arguments provided",
                   Empty, Empty, n_calls)]

\* get_positional_option, entered with positional_option_count = count0;
\* n_calls is positional_option_calls.size().
get_positional_option(args, value, count0, config, n_calls) ==
    LET count == count0 + 1
        Validate(r) ==
            IF r.err # NoError THEN r
            ELSE IF validator_throws(config, r.value)
            THEN [r EXCEPT !.err = Throw("validation_error",
                                         "Validation failed for positional option",
                                         Empty, Empty, r.count)]
            ELSE r
        Scalar(it, p, e) ==
            [args |-> IF e = NoError THEN Blank(args, it) ELSE args,
             value |-> p.value, count |-> count,
             err |-> IF e = NoError \/ e.name = Empty THEN e
                     ELSE [e EXCEPT !.n = count]]
        Checked(it, p) ==
            Scalar(it, p, input_error(p, <<"positional option">>, args[it]))
        Retrieve(it) ==
            IF it = Len(args) + 1
            THEN not_enough_positionals(args, value, count, config, n_calls)
            ELSE IF config.container
            THEN Validate(positional_loop(args, Empty, it, count, config.type))
            ELSE Validate(Checked(it, parse_option_value(value, args[it],
                                                         config.type, FALSE)))
    IN  Retrieve(FindIf({i \in 1..Len(args) : NonEmpty(args[i])}, 1, Len(args) + 1))

----------------------------------------------------------------------------
(* parse(): its statements in order.  The three loops run one stored call   *)
(* per step; the other statements are one step each.                       *)

PhaseOrderFlagsFirst ==
    <<"begin", "flags", "options", "unknown_ids", "strip", "positionals", "left_over">>

PhaseOrder ==
    <<"begin", "options", "flags", "unknown_ids", "strip", "positionals", "left_over">>

\* How many steps a statement of parse() takes: a loop runs once per stored call.
Count(phase) ==
    IF phase = "options" THEN Len(option_calls)
    ELSE IF phase = "flags" THEN Len(flag_calls)
    ELSE IF phase = "positionals" THEN Len(positional_option_calls)
    ELSE 1

\* The first step at or after the k-th statement: a loop over no calls is skipped.
RECURSIVE FirstFrom(_)
FirstFrom(k) ==
    IF k > Len(PhaseOrder) THEN [pc |-> "done", idx |-> 1]
    ELSE IF Count(PhaseOrder[k]) > 0 THEN [pc |-> PhaseOrder[k], idx |-> 1]
    ELSE FirstFrom(k + 1)

\* The step that follows step i of statement phase when it did not throw.
After(phase, i) ==
    IF i < Count(phase)
    THEN [pc |-> phase, idx |-> i + 1]
    ELSE FirstFrom((CHOOSE k \in 1..Len(PhaseOrder) : PhaseOrder[k] = phase) + 1)

\* Control that goes on to the next step whatever the running step threw.
ContinuePastError(err) ==
    /\ error' = err
    /\ pc' = After(pc, idx).pc
    /\ idx' = After(pc, idx).idx
    /\ history' = Append(history, <<pc, idx>>)

\* Control after the running step: on to the next step, or out of parse()
\* with the exception err.
Continue(err) ==
    LET Goto(next) ==
            /\ pc' = IF err = NoError THEN next.pc ELSE "error"
            /\ idx' = IF err = NoError THEN next.idx ELSE idx
    IN  /\ error' = err
        /\ Goto(After(pc, idx))
        /\ history' = Append(history, <<pc, idx>>)

IsMarker(s) == s = <<Dash, Dash>>

\* end_of_options_it = std::find(arguments.begin(), arguments.end(), "--")
Begin ==
    /\ pc = "begin"
    /\ end_of_options_it' = FindIf({i \in 1..Len(arguments) : IsMarker(arguments[i])},
                                   1, Len(arguments) + 1)
    /\ Continue(NoError)
    /\ UNCHANGED <<frame, enumeration_names, cmd_arguments, arguments, option_calls, flag_calls,
                   positional_option_calls, opt_value, flag_value, pos_value,
                   positional_option_count, pre_call>>

\* One call of option_calls: get_option(value, config)
OptionCall ==
    /\ pc = "options"
    /\ LET Returned(r) ==
               /\ arguments' = r.args
               /\ opt_value' = [opt_value EXCEPT ![idx] = r.value]
               /\ Continue(r.err)
       IN  Returned(get_option(arguments, end_of_options_it, opt_value[idx],
                               option_calls[idx]))
    /\ UNCHANGED <<frame, enumeration_names, cmd_arguments, end_of_options_it, option_calls, flag_calls,
                   positional_option_calls, flag_value, pos_value,
                   positional_option_count, pre_call>>

\* One call of flag_calls: get_flag(value, config.short_id, config.long_id)
FlagCall ==
    /\ pc = "flags"
    /\ LET config == flag_calls[idx]
           Returned(r) ==
               /\ arguments' = r.args
               /\ flag_value' = [flag_value EXCEPT ![config.target] = r.value]
               /\ Continue(NoError)
       IN  Returned(get_flag(arguments, end_of_options_it, flag_value[config.target],
                             config.short_id, config.long_id))
    /\ UNCHANGED <<frame, enumeration_names, cmd_arguments, end_of_options_it, option_calls, flag_calls,
                   positional_option_calls, opt_value, pos_value,
                   positional_option_count, pre_call>>

CheckUnknownIds ==
    /\ pc = "unknown_ids"
    /\ Continue(check_for_unknown_ids(arguments, end_of_options_it))
    /\ UNCHANGED <<frame, enumeration_names, cmd_arguments, arguments, end_of_options_it, option_calls,
                   flag_calls, positional_option_calls, opt_value, flag_value,
                   pos_value, positional_option_count, pre_call>>

\* if (end_of_options_it != arguments.end()) *end_of_options_it = "";
StripMarker ==
    /\ pc = "strip"
    /\ arguments' = IF end_of_options_it # Len(arguments) + 1
                    THEN Blank(arguments, end_of_options_it)
                    ELSE arguments
    /\ Continue(NoError)
    /\ UNCHANGED <<frame, enumeration_names, cmd_arguments, end_of_options_it, option_calls, flag_calls,
                   positional_option_calls, opt_value, flag_value, pos_value,
                   positional_option_count, pre_call>>

\* One call of positional_option_calls: get_positional_option(value, validator)
PositionalCall ==
    /\ pc = "positionals"
    /\ LET Returned(r) ==
               /\ arguments' = r.args
               /\ pos_value' = [pos_value EXCEPT ![idx] = r.value]
               /\ positional_option_count' = r.count
               /\ Continue(r.err)
       IN  Returned(get_positional_option(arguments, pos_value[idx],
                                          positional_option_count,
                                          positional_option_calls[idx],
                                          Len(positional_option_calls)))
    /\ UNCHANGED <<frame, enumeration_names, cmd_arguments, end_of_options_it, option_calls, flag_calls,
                   positional_option_calls, opt_value, flag_value, pre_call>>

CheckLeftOverArgs ==
    /\ pc = "left_over"
    /\ Continue(check_for_left_over_args(arguments, end_of_options_it))
    /\ UNCHANGED <<frame, enumeration_names, cmd_arguments, arguments, end_of_options_it, option_calls,
                   flag_calls, positional_option_calls, opt_value, flag_value,
                   pos_value, positional_option_count, pre_call>>

Next ==
    \/ Begin
    \/ OptionCall
    \/ FlagCall
    \/ CheckUnknownIds
    \/ StripMarker
    \/ PositionalCall
    \/ CheckLeftOverArgs

----------------------------------------------------------------------------
(* parse() with the while loops of the container overloads run one         *)
(* iteration per step.  frame holds the locals of the running call: the    *)
(* iterator it, the identifier id looked up, seen_at_least_once, and what  *)
(* get_option keeps of the first lookup in short_id_is_set; args, value    *)
(* and count are the buffer, the target and the counter the call found.    *)

NoFrame ==
    [it |-> 0, id |-> ShortId(NUL), seen_at_least_once |-> FALSE,
     short_id_is_set |-> FALSE, args |-> <<>>, value |-> <<>>, count |-> 0]

\* Control when a call of the list phase ends: on to the next step, or out of
\* parse() with the exception err.
Leave(phase, err) ==
    LET Goto(next) ==
            /\ pc' = IF err = NoError THEN next.pc ELSE "error"
            /\ idx' = IF err = NoError THEN next.idx ELSE idx
    IN  /\ error' = err
        /\ Goto(After(phase, idx))
        /\ history' = Append(history, <<phase, idx>>)
        /\ frame' = NoFrame

\* get_option of a non-container option, as one step.
ScalarOptionCall ==
    /\ pc = "options"
    /\ ~option_calls[idx].container
    /\ OptionCall

\* get_option of a container option up to the while loop of
\* get_option_by_id(value, config.short_id): the lookup and value.clear().
ContainerOptionCall ==
    /\ pc = "options"
    /\ option_calls[idx].container
    /\ LET Enter(id, it) ==
               /\ frame' = [it |-> it, id |-> id,
                            seen_at_least_once |-> it # end_of_options_it,
                            short_id_is_set |-> FALSE,
                            args |-> arguments, value |-> opt_value[idx], count |-> 0]
               /\ opt_value' = IF it # end_of_options_it
                               THEN [opt_value EXCEPT ![idx] = Empty]
                               ELSE opt_value
           Lookup(id) == Enter(id, find_option_id(arguments, 1, end_of_options_it, id))
       IN  Lookup(ShortId(option_calls[idx].short_id))
    /\ pc' = "option_loop"
    /\ UNCHANGED <<enumeration_names, cmd_arguments, arguments, end_of_options_it,
                   option_calls, flag_calls, positional_option_calls, flag_value,
                   pos_value, positional_option_count, idx, error, pre_call, history>>

\* One iteration of the while loop of get_option_by_id for a container:
\* identify_and_retrieve_option_value(value, it, id) and the next lookup.
ContainerOptionIteration ==
    /\ pc = "option_loop"
    /\ frame.it # end_of_options_it
    /\ LET Iterated(r) ==
               /\ arguments' = r.args
               /\ opt_value' = [opt_value EXCEPT ![idx] = r.value]
               /\ IF r.err # NoError
                  THEN Leave("options", r.err)
                  ELSE /\ frame' = [frame EXCEPT
                                       !.it = find_option_id(r.args, r.it,
                                                             end_of_options_it, frame.id)]
                       /\ UNCHANGED <<pc, idx, error, history>>
       IN  Iterated(identify_and_retrieve_option_value(arguments, end_of_options_it,
                                                       opt_value[idx], frame.it, frame.id,
                                                       option_calls[idx].type, TRUE))
    /\ UNCHANGED <<enumeration_names, cmd_arguments, end_of_options_it, option_calls,
                   flag_calls, positional_option_calls, flag_value, pos_value,
                   positional_option_count, pre_call>>

\* The loop of the short identifier is left: short_id_is_set is what it
\* returns, and get_option_by_id(value, config.long_id) runs up to its loop.
ContainerOptionByLongId ==
    /\ pc = "option_loop"
    /\ frame.it = end_of_options_it
    /\ frame.id.is_short
    /\ LET Enter(id, it) ==
               /\ frame' = [frame EXCEPT !.it = it, !.id = id,
                                         !.seen_at_least_once = it # end_of_options_it,
                                         !.short_id_is_set = frame.seen_at_least_once]
               /\ opt_value' = IF it # end_of_options_it
                               THEN [opt_value EXCEPT ![idx] = Empty]
                               ELSE opt_value
           Lookup(id) == Enter(id, find_option_id(arguments, 1, end_of_options_it, id))
       IN  Lookup(LongId(option_calls[idx].long_id))
    /\ UNCHANGED <<enumeration_names, cmd_arguments, arguments, end_of_options_it,
                   option_calls, flag_calls, positional_option_calls, flag_value,
                   pos_value, positional_option_count, pc, idx, error, pre_call, history>>

\* The loop of the long identifier is left: the checks of get_option.
ContainerOptionChecks ==
    /\ pc = "option_loop"
    /\ frame.it = end_of_options_it
    /\ ~frame.id.is_short
    /\ Leave("options", get_option_checks(frame.short_id_is_set, frame.seen_at_least_once,
                                          opt_value[idx], option_calls[idx]))
    /\ UNCHANGED <<enumeration_names, cmd_arguments, arguments, end_of_options_it,
                   option_calls, flag_calls, positional_option_calls, opt_value,
                   flag_value, pos_value, positional_option_count, pre_call>>

\* get_positional_option of a non-container, as one step.
ScalarPositionalCall ==
    /\ pc = "positionals"
    /\ ~positional_option_calls[idx].container
    /\ PositionalCall

\* get_positional_option of a container up to its while loop: the counter,
\* the first lookup, too_few_arguments or value.clear().
ContainerPositionalCall ==
    /\ pc = "positionals"
    /\ positional_option_calls[idx].container
    /\ positional_option_count' = positional_option_count + 1
    /\ LET Found(it) ==
               IF it = Len(arguments) + 1
               THEN /\ Leave("positionals",
                             not_enough_positionals(arguments, pos_value[idx],
                                                    positional_option_count + 1,
                                                    positional_option_calls[idx],
                                                    Len(positional_option_calls)).err)
                    /\ pos_value' = pos_value
               ELSE /\ pos_value' = [pos_value EXCEPT ![idx] = Empty]
                    /\ frame' = [NoFrame EXCEPT !.it = it, !.args = arguments,
                                                !.value = pos_value[idx],
                                                !.count = positional_option_count]
                    /\ pc' = "positional_loop"
                    /\ UNCHANGED <<idx, error, history>>
       IN  Found(FindIf({i \in 1..Len(arguments) : NonEmpty(arguments[i])},
                        1, Len(arguments) + 1))
    /\ UNCHANGED <<enumeration_names, cmd_arguments, arguments, end_of_options_it,
                   option_calls, flag_calls, positional_option_calls, opt_value,
                   flag_value, pre_call>>

\* One iteration of the while loop of get_positional_option.
ContainerPositionalIteration ==
    /\ pc = "positional_loop"
    /\ frame.it # Len(arguments) + 1
    /\ LET Removed(args1) ==
               /\ arguments' = args1
               /\ frame' = [frame EXCEPT
                               !.it = FindIf({i \in 1..Len(args1) : NonEmpty(args1[i])},
                                             frame.it, Len(args1) + 1)]
               /\ positional_option_count' = positional_option_count + 1
               /\ UNCHANGED <<pc, idx, error, history>>
           Parsed(r, e) ==
               /\ pos_value' = [pos_value EXCEPT ![idx] = r.value]
               /\ IF e # NoError
                  THEN /\ Leave("positionals",
                                [e EXCEPT !.n = IF e.name = Empty THEN 0
                                                ELSE positional_option_count])
                       /\ UNCHANGED <<arguments, positional_option_count>>
                  ELSE Removed(Blank(arguments, frame.it))
           Checked(r) ==
               Parsed(r, input_error(r, <<"positional option">>, arguments[frame.it]))
       IN  Checked(parse_option_value(pos_value[idx], arguments[frame.it],
                                      positional_option_calls[idx].type, TRUE))
    /\ UNCHANGED <<enumeration_names, cmd_arguments, end_of_options_it, option_calls,
                   flag_calls, positional_option_calls, opt_value, flag_value, pre_call>>

\* The loop of get_positional_option is left: validator(value).
ContainerPositionalValidate ==
    /\ pc = "positional_loop"
    /\ frame.it = Len(arguments) + 1
    /\ Leave("positionals",
             IF validator_throws(positional_option_calls[idx], pos_value[idx])
             THEN Throw("validation_error", "Validation failed for positional option",
                        Empty, Empty, positional_option_count)
             ELSE NoError)
    /\ UNCHANGED <<enumeration_names, cmd_arguments, arguments, end_of_options_it,
                   option_calls, flag_calls, positional_option_calls, opt_value,
                   flag_value, pos_value, positional_option_count, pre_call>>

NextLoop ==
    \/ Begin
    \/ ScalarOptionCall
    \/ ContainerOptionCall
    \/ ContainerOptionIteration
    \/ ContainerOptionByLongId
    \/ ContainerOptionChecks
    \/ FlagCall
    \/ CheckUnknownIds
    \/ StripMarker
    \/ ScalarPositionalCall
    \/ ContainerPositionalCall
    \/ ContainerPositionalIteration
    \/ ContainerPositionalValidate
    \/ CheckLeftOverArgs

----------------------------------------------------------------------------
(* Declarations and command lines.  A declared option is the sharg::config *)
(* its call captured together with what option_type fixes (the value type  *)
(* and whether it is a container); a declaration set lists the calls of    *)
(* add_option, add_flag and add_positional_option in the order they were   *)
(* made, with the value each target holds when parse() is called.          *)

Option(short_id, long_id, required, container, type, rejects) ==
    [short_id |-> short_id, long_id |-> long_id, required |-> required,
     container |-> container, type |-> type, rejects |-> rejects]

Flag(short_id, long_id, target) ==
    [short_id |-> short_id, long_id |-> long_id, target |-> target]

Positional(container, type, rejects) ==
    [container |-> container, type |-> type, rejects |-> rejects]

Declaration(options, opt_init, flags, flag_init, positionals, pos_init) ==
    [options |-> options, opt_init |-> opt_init, flags |-> flags,
     flag_init |-> flag_init, positionals |-> positionals, pos_init |-> pos_init]

NoFlagTargets == [t \in {} |-> FALSE]

\* The declaration binds a target of the enumeration type.
UsesEnumeration(d) ==
    \/ \E k \in 1..Len(d.options) : d.options[k].type = "enum"
    \/ \E k \in 1..Len(d.positionals) : d.positionals[k].type = "enum"

\* The names of the enumeration: b and ab name the value 1, a names 2.
EnumerationNames ==
    { [first |-> <<"b">>, second |-> 1],
      [first |-> <<"a", "b">>, second |-> 1],
      [first |-> <<"a">>, second |-> 2] }

\* Every order in which a map of these pairs can be iterated.
IterationOrders(pairs) ==
    {order \in [1..Cardinality(pairs) -> pairs] :
        \A i, j \in 1..Cardinality(pairs) : i # j => order[i] # order[j]}

\* Every token list of at most max_args tokens of pool.
ArgLists(pool, max_args) == UNION {[1..n -> pool] : n \in 0..max_args}

\* The state after construction and declaration, parse() not yet called.
InitLines(declarations, lines) ==
    /\ cmd_arguments \in lines
    /\ enumeration_names \in
           IF \E d \in declarations : UsesEnumeration(d)
           THEN IterationOrders(EnumerationNames)
           ELSE {<<>>}
    /\ arguments = cmd_arguments
    /\ end_of_options_it = 0
    /\ \E d \in declarations :
          /\ option_calls = d.options
          /\ flag_calls = d.flags
          /\ positional_option_calls = d.positionals
          /\ opt_value = d.opt_init
          /\ flag_value = d.flag_init
          /\ pos_value = d.pos_init
          /\ pre_call = [opt |-> d.opt_init, flag |-> d.flag_init, pos |-> d.pos_init]
    /\ positional_option_count = 0
    /\ pc = "begin"
    /\ idx = 1
    /\ error = NoError
    /\ history = <<>>
    /\ frame = NoFrame

\* The same with every token list of at most max_args tokens of pool.
InitWith(declarations, pool, max_args) ==
    InitLines(declarations, ArgLists(pool, max_args))

(* Flags, unknown identifiers and the end-of-options marker. *)

MaxArgs == 3

FlagF == Flag("f", <<"f", "l">>, "f")
FlagG == Flag("g", Empty, "g")
FlagH == Flag("h", Empty, "h")

ShortK(required) == Option("k", Empty, required, FALSE, "string", {})

ThreeFlags ==
    Declaration(<<ShortK(FALSE)>>, <<<<"d">>>>,
                <<FlagF, FlagG, FlagH>>, [t \in {"f", "g", "h"} |-> FALSE],
                <<Positional(TRUE, "string", {})>>, <<Empty>>)

RequiredK ==
    Declaration(<<ShortK(TRUE)>>, <<<<"d">>>>,
                <<FlagG>>, [t \in {"g"} |-> FALSE],
                <<Positional(FALSE, "string", {})>>, <<<<"d">>>>)

OneFlag ==
    Declaration(<<>>, <<>>,
                <<FlagF>>, [t \in {"f"} |-> FALSE],
                <<Positional(FALSE, "string", {})>>, <<<<"d">>>>)

\* Option -k with a validator that rejects the strings "d" and "1".
GuardedK ==
    Declaration(<<Option("k", Empty, FALSE, FALSE, "string", {<<"d">>, <<"1">>})>>,
                <<<<"d">>>>,
                <<FlagG>>, [t \in {"g"} |-> FALSE],
                <<Positional(FALSE, "string", {})>>, <<<<"d">>>>)

\* Flags f and g write to one target, and the target of h is pre-seeded.
SharedTarget ==
    Declaration(<<>>, <<>>,
                <<Flag("f", <<"f", "l">>, "t"), Flag("g", Empty, "t"), Flag("h", Empty, "s")>>,
                [t \in {"t", "s"} |-> t = "s"],
                <<Positional(FALSE, "string", {})>>, <<<<"d">>>>)

Declarations == {ThreeFlags, RequiredK, OneFlag, GuardedK, SharedTarget}

Pool ==
    { <<"-", "f">>, <<"-", "f", "g">>, <<"-", "g", "f">>, <<"-", "g", "h", "f">>,
      <<"-", "-", "f", "l">>, <<"-", "y">>, <<"-", "f", "y">>, <<"-", "-">>,
      <<"-">>, <<"1">>, <<"-", "k", "1">>, <<"-", "f", "f">> }

Init == InitWith(Declarations, Pool, MaxArgs)

Spec == Init /\ [][Next]_vars

(* The forms of an option's value. *)

MaxOptArgs == 4

OptionK(container, type, rejects) ==
    Option("k", <<"n", "m">>, FALSE, container, type, rejects)

ScalarString ==
    Declaration(<<OptionK(FALSE, "string", {})>>, <<<<"d">>>>,
                <<>>, NoFlagTargets, <<>>, <<>>)

ScalarBool ==
    Declaration(<<OptionK(FALSE, "bool", {})>>, <<FALSE>>,
                <<>>, NoFlagTargets, <<>>, <<>>)

ContainerString ==
    Declaration(<<OptionK(TRUE, "string", {})>>, <<<<<<"d">>>>>>,
                <<FlagF>>, [t \in {"f"} |-> FALSE],
                <<Positional(FALSE, "string", {})>>, <<<<"d">>>>)

OptDeclarations == {ScalarString, ScalarBool, ContainerString}

OptPool ==
    { <<"-", "k">>, <<"-", "k", "1">>, <<"-", "k", "=", "1">>, <<"-", "k", "=">>,
      <<"-", "-", "n", "m">>, <<"-", "-", "n", "m", "=", "1">>,
      <<"1">>, <<"=", "1">>, Empty, <<"-", "-">> }

InitOpt == InitWith(OptDeclarations, OptPool, MaxOptArgs)

SpecOpt == InitOpt /\ [][Next]_vars

(* Numerals for an 8-bit unsigned target. *)

MaxNumber == 258

\* The decimal numeral of n.
RECURSIVE Decimal(_)
Decimal(n) ==
    IF n < 10 THEN <<Digits[n + 1]>>
    ELSE Decimal(n \div 10) \o <<Digits[(n % 10) + 1]>>

NotNumerals ==
    { <<"2", "5", "x">>, <<"x">>, Empty, <<"-", "1">>, <<"+", "1">>,
      <<"2", "5", "6", "x">>, <<" ", "1">>, <<"1", " ">> }

\* What is tried as a number: the numerals of 0..MaxNumber, some of them
\* with a leading zero, and strings that are no numerals.
NumberInputs ==
    {Decimal(n) : n \in 0..MaxNumber}
    \cup {<<"0">> \o Decimal(n) : n \in {0, 7, 255, 256}}
    \cup NotNumerals

Uint8s ==
    Declaration(<<Option("k", <<"n", "m">>, FALSE, FALSE, "uint8", {})>>, <<7>>,
                <<FlagF>>, [t \in {"f"} |-> FALSE],
                <<Positional(FALSE, "uint8", {})>>, <<7>>)

\* A number given to the option, as -k V, -kV or --nm=V and with or without
\* the positional, or to the positional alone.
NumberLines ==
    UNION {{ <<<<"-", "k">>, V>>,
             <<<<"-", "k">> \o V, <<"-", "f">>, <<"1">>>>,
             <<<<"-", "-", "n", "m", "=">> \o V, <<"-", "-">>, <<"2", "5", "6">>>>,
             <<V>> } : V \in NumberInputs}

InitNum == InitLines({Uint8s}, NumberLines)

SpecNum == InitNum /\ [][Next]_vars

(* Scalar positional options followed by a container. *)

MaxPosArgs == 4

OneThenMany ==
    Declaration(<<ShortK(FALSE)>>, <<<<"d">>>>,
                <<FlagF>>, [t \in {"f"} |-> FALSE],
                <<Positional(FALSE, "string", {}), Positional(TRUE, "string", {})>>,
                <<<<"d">>, <<<<"d">>>>>>)

TwoThenMany ==
    Declaration(<<ShortK(FALSE)>>, <<<<"d">>>>,
                <<FlagF>>, [t \in {"f"} |-> FALSE],
                <<Positional(FALSE, "string", {}), Positional(FALSE, "string", {}),
                  Positional(TRUE, "string", {})>>,
                <<<<"d">>, <<"d">>, <<<<"d">>>>>>)

PosDeclarations == {OneThenMany, TwoThenMany}

PosPool ==
    { <<"a">>, <<"b">>, <<"c">>, <<"-", "f">>, <<"-", "k">>, <<"-", "k", "f">>,
      <<"-", "-">>, Empty }

InitPos == InitWith(PosDeclarations, PosPool, MaxPosArgs)

SpecPos == InitPos /\ [][Next]_vars

(* Enumerated values. *)

MaxEnumArgs == 3

Enums ==
    Declaration(<<Option("k", <<"n", "m">>, FALSE, FALSE, "enum", {})>>, <<0>>,
                <<FlagF>>, [t \in {"f"} |-> FALSE],
                <<Positional(TRUE, "enum", {})>>, <<<<0>>>>)

EnumPool ==
    { <<"-", "k">>, <<"-", "k", "b">>, <<"-", "-", "n", "m", "=", "z">>,
      <<"a">>, <<"a", "b">>, <<"z">>, <<"-", "f">>, <<"-", "-">> }

InitEnum == InitWith({Enums}, EnumPool, MaxEnumArgs)

SpecEnum == InitEnum /\ [][Next]_vars

(* Tokens that are and that are almost an occurrence of an identifier. *)

MaxFindArgs == 3

FindPool ==
    { <<"-", "k">>, <<"-", "k", "x">>, <<"-", "k", "=", "x">>,
      <<"-", "-", "n", "m">>, <<"-", "-", "n", "m", "=", "x">>,
      <<"-", "-", "n", "m", "x">>, <<"-", "-", "n">>, <<"k">>, <<"-">>,
      <<"-", "-">>, Empty }

FindDeclaration ==
    Declaration(<<OptionK(FALSE, "string", {})>>, <<<<"d">>>>,
                <<FlagF>>, [t \in {"f"} |-> FALSE],
                <<Positional(TRUE, "string", {})>>, <<Empty>>)

InitFind == InitWith({FindDeclaration}, FindPool, MaxFindArgs)

SpecFind == InitFind /\ [][Next]_vars

(* Two options, the first of which can take the tokens of the second. *)

MaxTwoArgs == 3

TwoPool ==
    { <<"-", "k">>, <<"-", "-", "n", "m">>, <<"-", "a">>, <<"-", "a", "1">>,
      <<"-", "f">>, <<"1">>, <<"-", "-">> }

OptionsAK(type, seed) ==
    Declaration(<<Option("a", Empty, FALSE, FALSE, "string", {}), OptionK(FALSE, type, {})>>,
                <<<<"d">>, seed>>,
                <<FlagF>>, [t \in {"f"} |-> FALSE],
                <<Positional(TRUE, "string", {})>>, <<Empty>>)

TwoDeclarations == {OptionsAK("string", <<"d">>), OptionsAK("bool", FALSE)}

InitTwo == InitWith(TwoDeclarations, TwoPool, MaxTwoArgs)

SpecTwo == InitTwo /\ [][Next]_vars

(* Containers, their loops run one iteration per step.  parse() is        *)
(* sequential code: a step that can be taken is taken.                     *)

MaxLoopArgs == 3

LoopPool ==
    { <<"-", "k">>, <<"-", "k", "1">>, <<"-", "k", "=">>, <<"-", "-", "n", "m", "=", "1">>,
      <<"a">>, <<"-", "f">>, <<"-", "-">> }

ManyOfEach(type) ==
    Declaration(<<OptionK(TRUE, type, {})>>, <<<<"d">>>>,
                <<FlagF>>, [t \in {"f"} |-> FALSE],
                <<Positional(TRUE, "string", {})>>, <<<<<<"d">>>>>>)

LoopDeclarations == {ManyOfEach("string"), ManyOfEach("bool")}

\* Containers alone, and a scalar option and a scalar positional ahead of a
\* container with a shorter command line.
InitLoop ==
    \/ InitWith(LoopDeclarations, LoopPool, MaxLoopArgs)
    \/ InitWith({OneThenMany}, LoopPool, MaxLoopArgs - 1)

SpecLoop == InitLoop /\ [][NextLoop]_vars /\ WF_vars(NextLoop)

(* A container of positional options with a validator. *)

MaxManyArgs == 3

ManyPool == { <<"a">>, <<"b">>, <<"-", "f">>, <<"-", "k">>, <<"-", "-">> }

\* The containers a validator that refuses the element b throws for.
HoldsB ==
    {v \in UNION {[1..n -> ManyPool] : n \in 1..MaxManyArgs} :
        \E i \in 1..Len(v) : v[i] = <<"b">>}

OneThenGuardedMany ==
    Declaration(<<ShortK(FALSE)>>, <<<<"d">>>>,
                <<FlagF>>, [t \in {"f"} |-> FALSE],
                <<Positional(FALSE, "string", {}), Positional(TRUE, "string", HoldsB)>>,
                <<<<"d">>, <<<<"d">>>>>>)

InitMany == InitWith({OneThenGuardedMany}, ManyPool, MaxManyArgs)

SpecMany == InitMany /\ [][Next]_vars

----------------------------------------------------------------------------
(* The claims *)

\* The steps <<phase, 1>> .. <<phase, n>>
Steps(phase, n) == [i \in 1..n |-> <<phase, i>>]

\* The order of parsing the class documents: options, flags, the check for
\* unknown identifiers, the removal of "--", positional options, the check
\* for left-over arguments, each stored call once and in declaration order.
DocumentedOrder ==
    <<<<"begin", 1>>>>
    \o Steps("options", Len(option_calls))
    \o Steps("flags", Len(flag_calls))
    \o <<<<"unknown_ids", 1>>, <<"strip", 1>>>>
    \o Steps("positionals", Len(positional_option_calls))
    \o <<<<"left_over", 1>>>>

Returned == pc = "done"

Threw == pc = "error"

\* The statement of parse() named phase, and every one before it, has run
\* to its end without throwing.
Finished(phase) ==
    \E n \in 1..Len(history) :
        /\ history[n][1] = phase
        /\ history[n][2] = Count(phase)
        /\ Threw => n < Len(history)

MarkerPresent == \E i \in 1..Len(cmd_arguments) : IsMarker(cmd_arguments[i])

\* C1: parse() runs its phases once each and in the fixed order options,
\* flags, unknown-identifier check, removal of "--", positionals, left-over
\* check, every stored call of a phase in declaration order: what has run so
\* far is always an initial part of that order, the step that runs next is
\* the next one of it, and a parse that returns has run all of it.
C1_PhaseOrder ==
    /\ Len(history) <= Len(DocumentedOrder)
    /\ history = SubSeq(DocumentedOrder, 1, Len(history))
    /\ ~Returned /\ ~Threw => <<pc, idx>> = DocumentedOrder[Len(history) + 1]
    /\ Returned => history = DocumentedOrder

C1_Witness ==
    /\ Returned
    /\ MarkerPresent
    /\ Len(option_calls) > 0
    /\ Len(flag_calls) > 1
    /\ Len(positional_option_calls) > 0
    /\ \E t \in DOMAIN flag_value : flag_value[t]

\* Step i of the statement of parse() named phase has run (to its end or to
\* an exception).
Ran(phase, i) == \E n \in 1..Len(history) : history[n] = <<phase, i>>

\* The command lines give an option's value as a token or as the rest of one:
\* every rest of a token of the pool is a value to try.
TriedValues == {Substr(t, n) : <<t, n>> \in {<<t, n>> \in OptPool \X (0..6) : n <= Len(t)}}

\* A value every form can carry: not empty, not beginning with '=', not "--".
PlainValue(V) == V # Empty /\ V[1] # "=" /\ ~IsMarker(V)

\* One scalar option is declared, and nothing else.
OneScalarOption ==
    /\ Len(option_calls) = 1
    /\ ~option_calls[1].container
    /\ flag_calls = <<>>
    /\ positional_option_calls = <<>>

\* The three ways to give the option with short identifier c the value V:
\* -c V, -cV and -c=V.
ShortForms(c, V) ==
    { <<prepend_dash_short(c), V>>,
      <<prepend_dash_short(c) \o V>>,
      <<prepend_dash_short(c) \o <<"=">> \o V>> }

\* The one outcome of giving the single declared option the value V: the target
\* holds what V coerces to and parse() has not thrown, or, when V does not
\* coerce, the target is untouched and parse() threw the coercion's error
\* naming the short identifier and V.
OutcomeOf(V) ==
    LET config == option_calls[1]
        r == parse_scalar_value(pre_call.opt[1], V, config.type)
    IN  /\ opt_value[1] = r.value
        /\ error = throw_on_input_error(r.res, prepend_dash_short(config.short_id), V)

\* The three forms of the value V all end in the one outcome of V.
FormsAgreeOn(V) ==
    /\ OneScalarOption
    /\ cmd_arguments \in ShortForms(option_calls[1].short_id, V)
    /\ Ran("options", 1)
    => OutcomeOf(V)

\* C2 as stated: for every value V the token lists [-k, V], [-kV] and [-k=V]
\* give the same target value and the same outcome.
C2_AllValues == \A V \in TriedValues : FormsAgreeOn(V)

\* C2 (amended): for every value V that is not empty, does not begin with '='
\* and is not "--", the token lists [-k, V], [-kV] and [-k=V] give the same
\* target value and the same success or failure: the outcome of coercing V.
C2_FormsEquivalent == \A V \in TriedValues : PlainValue(V) => FormsAgreeOn(V)

C2_Witness ==
    /\ Returned
    /\ OneScalarOption
    /\ option_calls[1].type = "bool"
    /\ cmd_arguments = << <<"-", "k", "=", "1">> >>
    /\ opt_value[1] = TRUE
    /\ pre_call.opt[1] = FALSE

\* The two ways to give the option with long identifier l the value V:
\* --l V and --l=V.
LongForms(l, V) ==
    { <<prepend_dash_long(l), V>>,
      <<prepend_dash_long(l) \o <<"=">> \o V>> }

\* The token lists that give option -k/--nm once by its short identifier with
\* value V1 and once by its long identifier with value V2, in either order.
BothForms(V1, V2) ==
    UNION { {a \o b, b \o a} :
            <<a, b>> \in ShortForms("k", V1) \X LongForms(<<"n", "m">>, V2) }

\* V coerces to a value of the type.
Coerces(V, type) == parse_scalar_value(DefaultValue(type), V, type).res = "success"

TwiceAnyValues == UNION {BothForms(V[1], V[2]) : V \in TriedValues \X TriedValues}

TwicePlainValues(type) ==
    LET usable == {V \in TriedValues : PlainValue(V) /\ V[1] # Dash /\ Coerces(V, type)}
    IN  UNION {BothForms(V[1], V[2]) : V \in usable \X usable}

TwicePlainStrings == TwicePlainValues("string")

TwicePlainBools == TwicePlainValues("bool")

\* The command line is one of lists, or one of them followed by "--" and
\* anything.
BeforeMarker(lists) ==
    \E n \in 0..Len(cmd_arguments) :
        /\ SubSeq(cmd_arguments, 1, n) \in lists
        /\ n < Len(cmd_arguments) => IsMarker(cmd_arguments[n + 1])

\* The first declared option is -k/--nm and is no container.
ScalarKDeclared ==
    /\ Len(option_calls) >= 1
    /\ option_calls[1].short_id = "k"
    /\ option_calls[1].long_id = <<"n", "m">>
    /\ ~option_calls[1].container

DeclaredMultipleTimes == Threw /\ error.kind = "option_declared_multiple_times"

ContainerKDeclared ==
    /\ Len(option_calls) >= 1
    /\ option_calls[1].short_id = "k"
    /\ option_calls[1].long_id = <<"n", "m">>
    /\ option_calls[1].container

\* The values given to option -k/--nm in args before position eoo, read from
\* position i on from left to right: each token that is -k, -kV, -k=V, --nm or
\* --nm=V gives one value, and the bare identifier takes the token after it.
RECURSIVE SuppliedValues(_, _, _)
SuppliedValues(args, i, eoo) ==
    IF i >= eoo THEN <<>>
    ELSE LET tok == args[i]
             id == IF StartsWith(tok, <<"-", "k">>) THEN ShortId("k")
                   ELSE LongId(<<"n", "m">>)
             id_size == Len(prepend_dash(id))
         IN  IF ~IdMatches(ShortId("k"), tok) /\ ~IdMatches(LongId(<<"n", "m">>), tok)
             THEN SuppliedValues(args, i + 1, eoo)
             ELSE IF Len(tok) > id_size
             THEN <<attached_value(tok, id_size)>> \o SuppliedValues(args, i + 1, eoo)
             ELSE IF i + 1 < eoo
             THEN <<args[i + 1]>> \o SuppliedValues(args, i + 2, eoo)
             ELSE <<>>

\* C4: once its operation has returned, a container option given N >= 1 times
\* before the marker, by any mix of its short and long forms, holds exactly
\* the N values in left-to-right token order, and one not given at all holds
\* what it held before parse().
C4_ContainerLeftToRight ==
    ContainerKDeclared /\ option_calls[1].type = "string" /\ Finished("options")
    => LET given == SuppliedValues(cmd_arguments, 1, end_of_options_it)
       IN  opt_value[1] = IF given = <<>> THEN pre_call.opt[1] ELSE given

\* A token that begins with one dash and goes on with something else than a
\* dash: what the short identifiers of options and flags are looked up in.
SingleDashToken(tok) == Len(tok) > 1 /\ tok[1] = Dash /\ tok[2] # Dash

\* The declared flags whose short identifier is the letter c.
FlagsWithLetter(c) == {k \in 1..Len(flag_calls) : flag_calls[k].short_id = c}

\* Token i of the command line is a group of short flags: a dash followed by
\* pairwise distinct letters of declared flags, before any "--", and the one
\* single-dash token of the command line.
GroupedFlagsToken(i) ==
    LET T == cmd_arguments[i]
    IN  /\ SingleDashToken(T)
        /\ \A n \in 2..Len(T) : FlagsWithLetter(T[n]) # {}
        /\ \A m, n \in 2..Len(T) : m # n => T[m] # T[n]
        /\ \A j \in 1..i : ~IsMarker(cmd_arguments[j])
        /\ \A j \in 1..Len(cmd_arguments) : j # i => ~SingleDashToken(cmd_arguments[j])

\* C5: once the flags have run, every flag named in a group of short flags is
\* true and the token of the group is the empty sentinel; an unknown-identifier
\* error is not about that token, and a left-over error is about another token.
C5_GroupedShortFlags ==
    \A i \in 1..Len(cmd_arguments) :
        GroupedFlagsToken(i) /\ Finished("flags")
        => /\ \A n \in 2..Len(cmd_arguments[i]) :
                  \A k \in FlagsWithLetter(cmd_arguments[i][n]) :
                      flag_value[flag_calls[k].target]
           /\ arguments[i] = Empty
           /\ error.kind = "unknown_option" => error.arg # cmd_arguments[i]
           /\ error.kind = "too_many_arguments"
                  => \E j \in 1..Len(arguments) : j # i /\ arguments[j] # Empty

C5_Witness ==
    /\ Returned
    /\ \E i \in 1..Len(cmd_arguments) :
          /\ GroupedFlagsToken(i)
          /\ Len(cmd_arguments[i]) = 4
          /\ arguments[i] = Empty
    /\ \A t \in {"f", "g", "h"} : t \in DOMAIN flag_value /\ flag_value[t]

\* No declared option is required.
NothingRequired == \A k \in 1..Len(option_calls) : ~option_calls[k].required

\* The tokens after the first "--" that begin with a dash.
EscapedTokens ==
    {j \in 1..Len(cmd_arguments) :
        /\ j > end_of_options_it
        /\ cmd_arguments[j] # Empty
        /\ cmd_arguments[j][1] = Dash}

\* C6: a dash-prefixed token after the first "--" is never reported as an
\* unknown option or unknown flags and reaches the positional options with its
\* text unchanged; [-y, --, -y] with -y undeclared fails with an unknown
\* option naming -y, and [-f, --, -y] with flag f and one scalar string
\* positional declared gives the positional the value "-y".
C6_MarkerEscapes ==
    /\ error.kind = "unknown_option"
           => \E j \in 1..Len(arguments) :
                  j < end_of_options_it /\ arguments[j] = error.arg
    /\ Finished("strip")
           => \A j \in EscapedTokens :
                  \/ arguments[j] = cmd_arguments[j]
                  \/ /\ arguments[j] = Empty
                     /\ \E k \in 1..Len(pos_value) :
                            \/ pos_value[k] = cmd_arguments[j]
                            \/ /\ positional_option_calls[k].container
                               /\ \E n \in 1..Len(pos_value[k]) :
                                      pos_value[k][n] = cmd_arguments[j]
    /\ cmd_arguments = <<<<"-", "y">>, <<"-", "-">>, <<"-", "y">>>>
           /\ NothingRequired /\ (Returned \/ Threw)
           => error.kind = "unknown_option" /\ error.arg = <<"-", "y">>
    /\ cmd_arguments = <<<<"-", "f">>, <<"-", "-">>, <<"-", "y">>>>
           /\ flag_calls = <<FlagF>> /\ option_calls = <<>>
           /\ (Returned \/ Threw)
           => Returned /\ pos_value[1] = <<"-", "y">>

\* A step leaves every token at or after the first "--" as it is.
TokensFromMarkerKept ==
    \A j \in 1..Len(arguments) :
        j >= end_of_options_it => arguments'[j] = arguments[j]

\* C7: no step of the options and flags changes a token at or after the
\* first "--": matching and scanning stay in front of the marker.
C7_NeverCrossesMarker == [][(pc \in {"options", "flags"}) => TokensFromMarkerKept]_vars

\* The tokens left in the buffer.
LeftOver == {j \in 1..Len(arguments) : arguments[j] # Empty}

\* C8: parse() returns only with every token of the buffer blanked, and when
\* the positional options have all run and a token is left anywhere in the
\* buffer, before or after the place of "--", the check for left-over
\* arguments throws too_many_arguments.
C8_LeftOverRule ==
    /\ Returned => LeftOver = {}
    /\ Ran("left_over", 1) /\ LeftOver # {}
           => Threw /\ error.kind = "too_many_arguments"
    /\ Ran("left_over", 1) /\ LeftOver = {} => Returned

C8_Witness ==
    /\ Threw
    /\ error.kind = "too_many_arguments"
    /\ Ran("left_over", 1)
    /\ MarkerPresent
    /\ \E j \in LeftOver : j > end_of_options_it

\* The tokens before the first "--" that are left in the buffer, begin with a
\* dash and are more than the dash.
UnknownIds ==
    {j \in 1..Len(arguments) :
        /\ j < end_of_options_it
        /\ arguments[j] # Empty
        /\ arguments[j][1] = Dash
        /\ Len(arguments[j]) > 1}

\* What the documentation calls the token: several flags when it has one
\* leading dash and more than one character after it, an option otherwise.
UnknownKind(tok) ==
    IF Len(tok) > 2 /\ tok[2] # Dash THEN "Unknown flags" ELSE "Unknown option"

\* The step of the check for unknown identifiers: it changes no token, it
\* returns when no token before "--" is an unknown identifier, and else it
\* throws unknown_option for the first of them, named as flags or as an option.
UnknownIdStep ==
    /\ arguments' = arguments
    /\ IF UnknownIds = {}
       THEN error' = NoError /\ pc' # "error"
       ELSE LET first == CHOOSE j \in UnknownIds : \A k \in UnknownIds : j <= k
            IN  /\ pc' = "error"
                /\ error'.kind = "unknown_option"
                /\ error'.arg = arguments[first]
                /\ error'.msg = UnknownKind(arguments[first])

\* C9: after the options and flags, the first token left before "--" that
\* begins with a dash and is not the bare "-" ends parse() with
\* unknown_option, reported as unknown flags when it has a single dash and is
\* longer than two characters and as an unknown option otherwise; a bare "-"
\* raises nothing and stays in the buffer.
C9_UnknownIdCheck == [][(pc = "unknown_ids") => UnknownIdStep]_vars

C9_Witness ==
    /\ Threw
    /\ error.kind = "unknown_option"
    /\ error.msg = "Unknown flags"
    /\ \E i, j \in 1..Len(arguments) :
          /\ i < j
          /\ j < end_of_options_it
          /\ arguments[i] = <<Dash>>
          /\ arguments[j] = error.arg

\* The exceptions a statement of parse() can end with.
ErrorsOf(phase) ==
    IF phase = "options"
    THEN {"too_few_arguments", "user_input_error", "option_declared_multiple_times",
          "required_option_missing", "validation_error"}
    ELSE IF phase = "unknown_ids" THEN {"unknown_option"}
    ELSE IF phase = "positionals"
    THEN {"too_few_arguments", "user_input_error", "validation_error"}
    ELSE IF phase = "left_over" THEN {"too_many_arguments"}
    ELSE {}

\* The step that ran last.
LastStep == history[Len(history)]

\* Option k is given nowhere before the first "--".
OptionAbsent(k) ==
    \A j \in 1..Len(cmd_arguments) :
        j < end_of_options_it
        => /\ ~IdMatches(ShortId(option_calls[k].short_id), cmd_arguments[j])
           /\ ~IdMatches(LongId(option_calls[k].long_id), cmd_arguments[j])

\* parse() ends with the first exception in the order of its statements: an
\* exception is there exactly when parse() has left, it is one of the
\* statement that ran last, and nothing after that statement has run: the
\* options after a throwing option, and the flags and positional options
\* after a throwing option or check, hold what they held before parse().  A
\* required option that is absent is what parse() reports whatever else is
\* wrong, and the errors of the positional options and of the left-over check
\* come only when no unknown identifier is left before "--".
FailFast ==
    /\ (error # NoError) = Threw
    /\ Threw
           => /\ history = SubSeq(DocumentedOrder, 1, Len(history))
              /\ error.kind \in ErrorsOf(LastStep[1])
              /\ LastStep[1] = "options"
                     => /\ \A k \in 1..Len(option_calls) :
                               k > LastStep[2] => opt_value[k] = pre_call.opt[k]
                        /\ flag_value = pre_call.flag
              /\ LastStep[1] \in {"options", "unknown_ids"}
                     => /\ pos_value = pre_call.pos
                        /\ positional_option_count = 0
              /\ LastStep[1] \in {"positionals", "left_over"} => UnknownIds = {}
    /\ Len(option_calls) > 0 /\ Ran("options", 1)
           /\ option_calls[1].required /\ OptionAbsent(1)
           => /\ Threw
              /\ error.kind = "required_option_missing"
              /\ LastStep = <<"options", 1>>

\* C10: parse() reports the first violation met in the order of its phases
\* and of the declarations within a phase, and once it has thrown nothing
\* more happens: no step follows an exception, and every state a step
\* reaches is one of FailFast.
C10_FailFast == [][(pc # "error") /\ FailFast']_vars

C10_Witness ==
    /\ Threw
    /\ error.kind = "required_option_missing"
    /\ UnknownIds # {}
    /\ Len(flag_calls) > 0
    /\ Len(positional_option_calls) > 0

\* The declared option and the positional are 8-bit unsigned numbers.
Uint8Declared ==
    /\ Len(option_calls) = 1 /\ option_calls[1].type = "uint8"
    /\ Len(positional_option_calls) = 1 /\ positional_option_calls[1].type = "uint8"

\* The outcome of coercing the string V into an 8-bit unsigned target that is
\* held in value and was seeded with seed: a numeral of 0..255 gives the
\* number, a numeral of a greater number gives the range error naming V, and
\* "25x" gives the parse error naming V.
CoercedTo(V, value, seed, threw) ==
    /\ \A n \in 0..MaxNumber :
           V = Decimal(n)
           => IF n <= 255
              THEN ~threw /\ value = n
              ELSE /\ threw
                   /\ error.kind = "user_input_error"
                   /\ error.msg = "is not in the valid range"
                   /\ error.arg = V
                   /\ value = seed
    /\ V = <<"2", "5", "x">>
           => /\ threw
              /\ error.kind = "user_input_error"
              /\ error.msg = "could not be parsed as type"
              /\ error.arg = V

\* C11: for an 8-bit unsigned target every decimal numeral of 0..255 is
\* coerced to its number, the numeral of a greater number fails with the
\* range (overflow) error, "25x" fails with the parse error, and the two
\* failures are told apart; checked for the option's value in each of its
\* forms and for the positional.
C11_Uint8Boundary ==
    Uint8Declared
    => /\ Ran("options", 1) /\ Len(cmd_arguments) = 2 /\ cmd_arguments[1] = <<"-", "k">>
              => CoercedTo(cmd_arguments[2], opt_value[1], pre_call.opt[1],
                           Threw /\ LastStep = <<"options", 1>>)
       /\ Ran("options", 1) /\ Len(cmd_arguments) = 3
              => CoercedTo(attached_value(cmd_arguments[1],
                                          IF cmd_arguments[1][2] = Dash THEN 4 ELSE 2),
                           opt_value[1], pre_call.opt[1],
                           Threw /\ LastStep = <<"options", 1>>)
       /\ Ran("positionals", 1) /\ Len(cmd_arguments) = 1
              => CoercedTo(cmd_arguments[1], pos_value[1], pre_call.pos[1],
                           Threw /\ LastStep = <<"positionals", 1>>)

C11_Witness ==
    /\ Uint8Declared
    /\ Threw
    /\ error.msg = "is not in the valid range"
    /\ cmd_arguments = <<<<"-", "k">>, <<"2", "5", "6">>>>
    /\ opt_value[1] = 7

\* The positional operation k has run and returned.
PositionalReturned(k) ==
    Ran("positionals", k) /\ ~(Threw /\ LastStep = <<"positionals", k>>)

\* What the positional operations that have returned took, in the order of
\* the declarations.
RECURSIVE TakenUpTo(_)
TakenUpTo(k) ==
    IF k = 0 THEN <<>>
    ELSE TakenUpTo(k - 1) \o
         (IF ~PositionalReturned(k) THEN <<>>
          ELSE IF positional_option_calls[k].container THEN pos_value[k]
          ELSE <<pos_value[k]>>)

IsLeft(s) == s # Empty

\* The tokens left in the buffer, in buffer order.
Remaining == SelectSeq(arguments, IsLeft)

\* What the buffer held when the positional options started: what they have
\* taken since, followed by what is left.
RemainingAtStart == TakenUpTo(Len(positional_option_calls)) \o Remaining

\* A step of the positional options that returns: nothing of the buffer is
\* lost or reordered, the i-th scalar holds the i-th token the buffer held
\* when the positional options started, and the container holds all from its
\* own place on and leaves nothing.
PositionalStep ==
    /\ idx = 1 => RemainingAtStart = Remaining
    /\ pc' # "error"
           => /\ RemainingAtStart' = RemainingAtStart
              /\ IF positional_option_calls[idx].container
                 THEN /\ pos_value'[idx] = SubSeq(RemainingAtStart, idx, Len(RemainingAtStart))
                      /\ Remaining' = <<>>
                 ELSE /\ pos_value'[idx] = RemainingAtStart[idx]
                      /\ Remaining' = Tail(Remaining)

\* One scalar and one container against [a, b, c].
OneThenManyExample ==
    /\ Len(positional_option_calls) = 2
    /\ cmd_arguments = <<<<"a">>, <<"b">>, <<"c">>>>
    /\ Ran("positionals", 2)
    => ~Threw /\ pos_value = <<<<"a">>, <<<<"b">>, <<"c">>>>>>

\* C12: with scalar positionals declared first and a container last, the i-th
\* scalar receives the i-th non-empty token left in the buffer after the
\* options, the flags and the removal of "--", and the container receives
\* all further ones in buffer order; one scalar and one container against
\* [a, b, c] give "a" and [b, c].
C12_PositionalOrder ==
    [][((pc = "positionals") => PositionalStep) /\ OneThenManyExample']_vars

C12_Witness ==
    /\ Returned
    /\ Len(positional_option_calls) = 3
    /\ pos_value = <<<<"a">>, <<"b">>, <<<<"c">>>>>>
    /\ cmd_arguments[1] = <<"-", "f">>

\* The token is an occurrence of the option: it begins with a dash and the
\* short identifier, or it is the long identifier after two dashes, alone or
\* followed by '='.
OccurrenceOf(config, tok) ==
    \/ /\ config.short_id # NUL
       /\ Len(tok) >= 2 /\ tok[1] = Dash /\ tok[2] = config.short_id
    \/ /\ config.long_id # Empty
       /\ \/ tok = <<Dash, Dash>> \o config.long_id
          \/ /\ Len(tok) > Len(config.long_id) + 2
             /\ SubSeq(tok, 1, Len(config.long_id) + 3)
                    = <<Dash, Dash>> \o config.long_id \o <<"=">>

\* No token of the buffer before the first "--" is an occurrence of the option.
NoOccurrence(config) ==
    \A j \in 1..Len(arguments) :
        j < end_of_options_it => ~OccurrenceOf(config, arguments[j])

\* The step of an option with no occurrence: required_option_missing when
\* the option is required, and else no exception, also when the validator
\* rejects what the target holds, and the buffer and the target as they were.
AbsentOptionStep ==
    /\ NoOccurrence(option_calls[idx])
           => IF option_calls[idx].required
              THEN pc' = "error" /\ error'.kind = "required_option_missing"
              ELSE /\ error' = NoError
                   /\ pc' # "error"
                   /\ arguments' = arguments
                   /\ opt_value' = opt_value
    /\ error'.kind = "required_option_missing"
           => option_calls[idx].required /\ NoOccurrence(option_calls[idx])

\* C13: an option operation that finds no occurrence of its identifiers
\* before the first "--" throws required_option_missing exactly when the
\* option is required; when it is not, nothing is thrown, the validator is
\* not called and the buffer is left as it was.
C13_RequiredOption == [][(pc = "options") => AbsentOptionStep]_vars

C13_Witness ==
    /\ Returned
    /\ Len(option_calls) = 1
    /\ ~option_calls[1].required
    /\ NoOccurrence(option_calls[1])
    /\ opt_value[1] \in option_calls[1].rejects
    /\ Len(cmd_arguments) > 1

\* The flag occurs in the buffer by its short form: in a single-dash token,
\* alone or grouped.
ShortFormOccurs(flag, upto) ==
    \E j \in 1..Len(arguments) :
        /\ j < upto
        /\ SingleDashToken(arguments[j])
        /\ \E n \in 2..Len(arguments[j]) : arguments[j][n] = flag.short_id

\* The flag occurs before the first "--" by its long form.
LongFormOccurs(flag) ==
    /\ flag.long_id # Empty
    /\ \E j \in 1..Len(arguments) :
           j < end_of_options_it /\ arguments[j] = <<Dash, Dash>> \o flag.long_id

\* The step of a flag: its target is true afterwards when it was true before
\* or the flag occurs before "--", it is true only when it was true before or
\* the flag occurs in the buffer, and no other target is written.
FlagStep ==
    LET flag == flag_calls[idx]
    IN  /\ flag_value[flag.target] => flag_value'[flag.target]
        /\ ShortFormOccurs(flag, end_of_options_it) \/ LongFormOccurs(flag)
               => flag_value'[flag.target]
        /\ flag_value'[flag.target]
               => \/ flag_value[flag.target]
                  \/ ShortFormOccurs(flag, Len(arguments) + 1)
                  \/ LongFormOccurs(flag)
        /\ \A t \in DOMAIN flag_value :
               t # flag.target => flag_value'[t] = flag_value[t]
        /\ pc' # "error"

\* C14: a flag target that is true before a flag operation, pre-seeded or set
\* by an earlier flag with the same target, is true after it whether or not
\* the flag occurs; no flag operation writes false over true, and the value
\* it leaves is found-by-short-form or found-by-long-form or the value before.
C14_FlagsMonotone == [][(pc = "flags") => FlagStep]_vars

C14_Witness ==
    /\ Returned
    /\ Len(flag_calls) = 3
    /\ flag_calls[1].target = flag_calls[2].target
    /\ cmd_arguments = <<<<"-", "f">>, <<"1">>>>
    /\ flag_value["t"]
    /\ pre_call.flag["s"] /\ flag_value["s"]
    /\ ~pre_call.flag["t"]

\* The command line holds no occurrence of the option before the first "--".
OptionNotGiven(config) ==
    \A j \in 1..Len(cmd_arguments) :
        j < end_of_options_it => ~OccurrenceOf(config, cmd_arguments[j])

\* The command line holds no occurrence of the flag, by its short form (alone
\* or grouped in a single-dash token) or by its long form.
FlagNotGiven(flag) ==
    \A j \in 1..Len(cmd_arguments) :
        /\ ~(/\ SingleDashToken(cmd_arguments[j])
             /\ \E n \in 2..Len(cmd_arguments[j]) : cmd_arguments[j][n] = flag.short_id)
        /\ ~(flag.long_id # Empty /\ cmd_arguments[j] = <<Dash, Dash>> \o flag.long_id)

C16_NoEffectOnFailure ==
    Threw => /\ opt_value = pre_call.opt
             /\ flag_value = pre_call.flag
             /\ pos_value = pre_call.pos

\* The names a message can give to what is declared: the identifiers of the
\* options after their dashes, and the positional options.
DeclaredNames ==
    {prepend_dash_short(option_calls[k].short_id) : k \in 1..Len(option_calls)}
    \cup {prepend_dash_long(option_calls[k].long_id) : k \in 1..Len(option_calls)}
    \cup {<<"positional option">>}

\* The strings the command line gives: its tokens and what follows the
\* first characters of one.
GivenTexts ==
    {Substr(cmd_arguments[j], n) :
        <<j, n>> \in {<<j, n>> \in (1..Len(cmd_arguments)) \X (0..6) :
                         n <= Len(cmd_arguments[j])}}

\* C17: every failure to coerce a value that leaves parse(), whatever the kind
\* of the value, names the identifier or the positional option it is about
\* and holds the text of the input that did not convert.
C17_CoercionMessages ==
    Threw /\ error.kind = "user_input_error"
    => /\ error.name \in DeclaredNames
       /\ error.arg \in GivenTexts

\* The value a key of the enumeration names.
ValueOfKey(key) == (CHOOSE p \in EnumerationNames : p.first = key).second

\* keys lists every key of the enumeration once, by ascending value and, among
\* equal values, by ascending name.
SortedByValueThenName(keys) ==
    /\ Len(keys) = Cardinality(EnumerationNames)
    /\ \A p \in EnumerationNames : \E i \in 1..Len(keys) : keys[i] = p.first
    /\ \A i, j \in 1..Len(keys) :
           i < j => \/ ValueOfKey(keys[i]) < ValueOfKey(keys[j])
                    \/ /\ ValueOfKey(keys[i]) = ValueOfKey(keys[j])
                       /\ StrLess(keys[i], keys[j])

\* The error of a string that is no key of the enumeration.
InvalidEnumerationValue ==
    Threw /\ error.msg = "You have chosen an invalid input value"

\* C18: what parse() ends with depends on the declarations and the tokens
\* only: the one thing it reads besides is the mapping of names to values,
\* and for every string the command line gives, the coercion to the
\* enumeration yields the same value or the same error, with the same list of
\* keys, for every iteration order of the mapping; the keys of the error are
\* sorted by value and, among equal values, by name.
C18_Deterministic ==
    enumeration_names # <<>>
    => /\ \A in \in GivenTexts :
              \A order \in IterationOrders(EnumerationNames) :
                  parse_enumeration_value(0, in, order)
                      = parse_enumeration_value(0, in, enumeration_names)
       /\ InvalidEnumerationValue
              => /\ error.kind = "user_input_error"
                 /\ SortedByValueThenName(error.keys)

C18_Witness ==
    /\ InvalidEnumerationValue
    /\ enumeration_names[1].first = <<"a">>
    /\ enumeration_names[2].first = <<"b">>
    /\ error.keys = <<<<"a", "b">>, <<"b">>, <<"a">>>>
    /\ LastStep[1] = "positionals"

\* The token is an occurrence of the option by its short form (short = TRUE)
\* or by its long form.
OccurrenceByForm(config, short, tok) ==
    OccurrenceOf(IF short THEN [config EXCEPT !.long_id = Empty]
                          ELSE [config EXCEPT !.short_id = NUL], tok)

\* The places before the first "--" where the command line holds an
\* occurrence of the option by the given form.
PlacesOf(config, short) ==
    {j \in 1..Len(cmd_arguments) :
        j < end_of_options_it /\ OccurrenceByForm(config, short, cmd_arguments[j])}

\* The only option declared is scalar and its operation has run.
ScalarOptionRan ==
    /\ Len(option_calls) = 1
    /\ ~option_calls[1].container
    /\ Ran("options", 1)

TwiceBySameForm(short) == Cardinality(PlacesOf(option_calls[1], short)) >= 2

\* The first occurrence by the given form is extracted with its value, and an
\* occurrence by that form is left after it: the first one holds its value
\* behind the identifier, or is followed before "--" by a token that is its
\* value, the value coerces to the option's type, and a further occurrence
\* is not that value token.
ExtractedAndFoundAgain(short) ==
    LET config == option_calls[1]
        places == PlacesOf(config, short)
        first == CHOOSE j \in places : \A k \in places : j <= k
        tok == cmd_arguments[first]
        id_size == IF short THEN 2 ELSE Len(config.long_id) + 2
        attached == Len(tok) > id_size
        V == IF attached THEN attached_value(tok, id_size) ELSE cmd_arguments[first + 1]
    IN  /\ places # {}
        /\ short \/ PlacesOf(config, TRUE) = {}
        /\ IF attached THEN tok # SubSeq(tok, 1, id_size) \o <<"=">>
                       ELSE first + 1 < end_of_options_it
        /\ Coerces(V, config.type)
        /\ \E j \in places : j > first /\ (attached \/ j # first + 1)

ThrewDeclaredMultipleTimes ==
    /\ Threw
    /\ LastStep = <<"options", 1>>
    /\ error.kind = "option_declared_multiple_times"

\* C19 as stated: a scalar option whose same identifier form occurs in two
\* tokens before "--" fails with option_declared_multiple_times.
C19_TwoOccurrences ==
    \A short \in BOOLEAN :
        ScalarOptionRan /\ TwiceBySameForm(short) /\ (short \/ PlacesOf(option_calls[1], TRUE) = {})
        => ThrewDeclaredMultipleTimes

\* C19: once the first occurrence of a scalar option by one form has been
\* extracted with its value, a further token before "--" that matches that
\* form makes parse() fail with option_declared_multiple_times.
C19_FoundAgain ==
    \A short \in BOOLEAN :
        ScalarOptionRan /\ ExtractedAndFoundAgain(short) => ThrewDeclaredMultipleTimes

C19_Witness ==
    /\ ScalarOptionRan
    /\ ExtractedAndFoundAgain(FALSE)
    /\ ThrewDeclaredMultipleTimes
    /\ error.name = <<"-", "-", "n", "m">>

\* The place of the token an option operation matches first: the first
\* occurrence by the short form, or by the long form when there is none.
FirstMatch(config) ==
    LET Places(short) ==
            {j \in 1..Len(arguments) :
                j < end_of_options_it /\ OccurrenceByForm(config, short, arguments[j])}
        Least(places) == CHOOSE j \in places : \A k \in places : j <= k
    IN  IF Places(TRUE) # {} THEN [at |-> Least(Places(TRUE)), id_size |-> 2]
        ELSE IF Places(FALSE) # {}
        THEN [at |-> Least(Places(FALSE)), id_size |-> Len(config.long_id) + 2]
        ELSE [at |-> 0, id_size |-> 0]

\* The step of an option that matches a token: it throws too_few_arguments
\* when the token is the identifier and '=' or when it is the bare identifier
\* with "--" or the end of the buffer next; else the value is what follows
\* the identifier (after '=' if there is one) or the next token, the tokens
\* so consumed are blanked, and, when no other occurrence is there to
\* extract, no other token is touched, too_few_arguments is not thrown, and a
\* value that coerces is what the target holds (and the validator is given).
ExtractionStep ==
    LET config == option_calls[idx]
        m == FirstMatch(config)
        tok == arguments[m.at]
        attached == Len(tok) > m.id_size
        malformed == IF attached THEN tok = SubSeq(tok, 1, m.id_size) \o <<"=">>
                                 ELSE m.at + 1 >= end_of_options_it
        consumed == IF attached THEN {m.at} ELSE {m.at, m.at + 1}
        V == IF ~attached THEN arguments[m.at + 1]
             ELSE IF tok[m.id_size + 1] = "=" THEN SubSeq(tok, m.id_size + 2, Len(tok))
             ELSE SubSeq(tok, m.id_size + 1, Len(tok))
        others == {j \in 1..Len(arguments) :
                      /\ j < end_of_options_it
                      /\ j \notin consumed
                      /\ OccurrenceOf(config, arguments[j])}
        coerced == parse_scalar_value(DefaultValue(config.type), V, config.type).value
    IN  m.at # 0
        => IF malformed
           THEN /\ pc' = "error"
                /\ error'.kind = "too_few_arguments"
                /\ error'.msg = "Missing value for option"
           ELSE /\ \A j \in consumed : arguments'[j] = Empty
                /\ others = {}
                       => /\ \A j \in 1..Len(arguments) :
                                 j \notin consumed => arguments'[j] = arguments[j]
                          /\ error'.kind # "too_few_arguments"
                          /\ Coerces(V, config.type)
                                 => /\ error'.kind \in {"none", "validation_error"}
                                    /\ opt_value'[idx] = IF config.container THEN <<coerced>>
                                                         ELSE coerced

\* C20: the extraction of an option's value throws too_few_arguments in two
\* situations and no other: the matched token is the identifier followed by
\* '=' alone, or it is the bare identifier and the next position is "--" or
\* the end of the buffer; in every other situation it yields a value and
\* blanks the consumed tokens, the identifier's and, in the separate form,
\* the value's, and no other.
C20_TooFewArguments == [][(pc = "options") => ExtractionStep]_vars

C20_Witness ==
    /\ Threw
    /\ error.kind = "too_few_arguments"
    /\ error.name = <<"-", "-", "n", "m">>
    /\ Len(cmd_arguments) = 3
    /\ cmd_arguments[2] = <<"-", "-", "n", "m">>
    /\ IsMarker(cmd_arguments[3])

\* The identifiers looked up: a short one, a long one, one with both parts
\* and one with none.
TriedIds ==
    { ShortId("k"), LongId(<<"n", "m">>),
      [is_short |-> TRUE, short_id |-> "k", long_id |-> <<"n", "m">>],
      [is_short |-> TRUE, short_id |-> NUL, long_id |-> Empty] }

\* The first position of [begin_it, end_it) whose token is an occurrence of
\* the identifier, and end_it when there is none.
FirstOccurrence(begin_it, end_it, id) ==
    LET places == {j \in begin_it..(end_it - 1) : OccurrenceOf(id, arguments[j])}
    IN  IF places = {} THEN end_it
        ELSE CHOOSE j \in places : \A k \in places : j <= k

\* C21: find_option_id returns the first position of [begin, end) whose token
\* matches the identifier and end when none does: a short identifier c
\* matches the tokens that start with -c, a long identifier name those that
\* are --name or start with --name=, an identifier with both parts those
\* that match either, and an identifier with no part matches none.
C21_FindOptionId ==
    \A id \in TriedIds :
        \A end_it \in 1..(Len(arguments) + 1) :
            \A begin_it \in 1..end_it :
                find_option_id(arguments, begin_it, end_it, id)
                    = FirstOccurrence(begin_it, end_it, id)

C21_Witness ==
    /\ Len(arguments) = 3
    /\ arguments[1] = <<"-", "-", "n", "m", "x">>
    /\ arguments[3] = <<"-", "-", "n", "m", "=", "x">>
    /\ find_option_id(arguments, 1, 4, LongId(<<"n", "m">>)) = 3
    /\ find_option_id(arguments, 1, 3, LongId(<<"n", "m">>)) = 3
    /\ pc = "options"

\* Token i of the command line is the first occurrence, before "--", of the
\* short option c, and holds behind -c a value in which the flag letter f
\* is found.
AttachedValueWithLetter(i, c, f) ==
    LET tok == cmd_arguments[i]
    IN  /\ i < end_of_options_it
        /\ Len(tok) > 2 /\ tok[1] = Dash /\ tok[2] = c
        /\ \E n \in 3..Len(tok) : tok[n] = f
        /\ \A j \in 1..(i - 1) :
               ~(Len(cmd_arguments[j]) >= 2 /\ cmd_arguments[j][1] = Dash
                                            /\ cmd_arguments[j][2] = c)

\* C22: the options run before the flags, so a token -k with a value attached
\* that holds the letter of a declared flag f (-kf) is consumed whole by the
\* option k, what follows -k being its value; the token does not set the
\* flag f and is not reported as unknown flags.
C22_OptionBeforeFlagGroup ==
    \A i \in 1..Len(cmd_arguments) :
        /\ Len(option_calls) = 1 /\ option_calls[1].short_id = "k"
        /\ Len(flag_calls) = 1 /\ flag_calls[1].short_id = "f"
        /\ Ran("options", 1)
        /\ AttachedValueWithLetter(i, "k", "f")
        => /\ arguments[i] = Empty
           /\ opt_value[1] = SubSeq(cmd_arguments[i], 3, Len(cmd_arguments[i]))
           /\ ~(error.kind = "unknown_option" /\ error.arg = cmd_arguments[i])
           /\ Finished("flags") /\ (\A j \in 1..Len(cmd_arguments) :
                                        j # i => ~(/\ SingleDashToken(cmd_arguments[j])
                                               /\ \E n \in 2..Len(cmd_arguments[j]) :
                                                      cmd_arguments[j][n] = "f"))
                  => ~flag_value["f"]

C22_Witness ==
    /\ Returned
    /\ Len(option_calls) = 1 /\ option_calls[1].short_id = "k"
    /\ Len(flag_calls) = 1 /\ flag_calls[1].short_id = "f"
    /\ AttachedValueWithLetter(1, "k", "f")
    /\ opt_value[1] = <<"f">>
    /\ ~flag_value["f"]

\* V is a numeral: one digit or more and nothing else.
IsNumeral(V) == V # Empty /\ \A n \in 1..Len(V) : IsDigit(V[n])

\* The numbers V is a numeral of.
NumbersOf(V) == {n \in 0..MaxNumber : V \in {Decimal(n), <<"0">> \o Decimal(n)}}

\* The one outcome of coercing V into the 8-bit unsigned target of option k:
\* the parse error when V is no numeral, the range error when V is the numeral
\* of a number above 255, and success with the number otherwise.
ClassifiedAs(V, value, threw) ==
    IF ~IsNumeral(V)
    THEN /\ threw
         /\ error.kind = "user_input_error"
         /\ error.msg = "could not be parsed as type"
    ELSE \A n \in NumbersOf(V) :
             IF n > 255
             THEN /\ threw
                  /\ error.kind = "user_input_error"
                  /\ error.msg = "is not in the valid range"
             ELSE ~threw /\ value = n

\* C23: the arithmetic coercion puts every string into exactly one class: a
\* string with characters that are not converted, or that is no number, is a
\* parse error, a numeral outside the range of the target is a range
\* (overflow) error, and anything else succeeds; a numeral that is too large
\* and is followed by a letter is a parse error and not a range error.
C23_ArithmeticClasses ==
    /\ Uint8Declared
    /\ Ran("options", 1)
    /\ Len(cmd_arguments) = 2
    /\ cmd_arguments[1] = <<"-", "k">>
    => ClassifiedAs(cmd_arguments[2], opt_value[1],
                    Threw /\ LastStep = <<"options", 1>>)

\* How many values the positional operations that have returned took from
\* the buffer.
ConsumedByPositionals == Len(TakenUpTo(Len(positional_option_calls)))

\* The counter does not decrease, and when a positional operation returns it
\* is the number of values taken so far.
CounterStep ==
    /\ positional_option_count' >= positional_option_count
    /\ (pc = "positionals" /\ pc' # "error")
           => positional_option_count' = ConsumedByPositionals'

\* C24: the positional counter never decreases, and after each positional
\* operation that has completed, scalar or container, it equals the number of
\* positional values consumed from the buffer so far.
C24_PositionalCounter == [][CounterStep]_vars

\* The first place in the sequence of tokens rem of an element the validator
\* of the container refuses by itself, 0 when there is none.
FirstRefused(config, rem) ==
    LET places == {j \in 1..Len(rem) : <<rem[j]>> \in config.rejects}
    IN  IF places = {} THEN 0 ELSE CHOOSE j \in places : \A k \in places : j <= k

\* A step of a container of positional options of which the j-th element is
\* refused: it throws validation_error for the position of that element, and
\* the tokens after that element are still in the buffer.
RefusedElementStep ==
    LET j == FirstRefused(positional_option_calls[idx], Remaining)
    IN  (positional_option_calls[idx].container /\ j > 0)
        => /\ pc' = "error"
           /\ error'.kind = "validation_error"
           /\ error'.n = positional_option_count + j
           /\ Remaining' = SubSeq(Remaining, j + 1, Len(Remaining))

\* C25: a container positional validates and removes one element at a time:
\* each element is given to the validator before the next token is coerced
\* and blanked, so that when the j-th element is refused the tokens of the
\* later elements are still in the buffer and the error reports the position
\* of that element.
C25_ElementWiseValidation == [][(pc = "positionals") => RefusedElementStep]_vars

\* A step of a scalar positional option that finds no token left in the
\* whole buffer: it throws too_few_arguments, and the count in the message is
\* the number of positional options declared.
ScalarWithoutTokenStep ==
    (~positional_option_calls[idx].container /\ Remaining = <<>>)
    => /\ pc' = "error"
       /\ error'.kind = "too_few_arguments"
       /\ error'.msg = "Not enough positional arguments provided"
       /\ error'.n = Len(positional_option_calls)

\* C26: a scalar positional operation that finds no non-empty token in the
\* whole buffer fails with too_few_arguments, and the minimum count of the
\* message is the number of declared positional operations, not the number
\* of values consumed.
C26_ScalarTooFew == [][(pc = "positionals") => ScalarWithoutTokenStep]_vars

C26_Witness ==
    /\ Threw
    /\ LastStep = <<"positionals", 2>>
    /\ ~positional_option_calls[2].container
    /\ error.kind = "too_few_arguments"
    /\ error.n = 3
    /\ ConsumedByPositionals = 1
    /\ positional_option_count = 2

\* A step of a container of positional options that finds no token left in
\* the buffer: it throws too_few_arguments as a scalar does, and its target
\* holds what it held before parse().
ContainerWithoutTokenStep ==
    (positional_option_calls[idx].container /\ Remaining = <<>>)
    => /\ pc' = "error"
       /\ error'.kind = "too_few_arguments"
       /\ error'.msg = "Not enough positional arguments provided"
       /\ error'.n = Len(positional_option_calls)
       /\ pos_value' = pos_value
       /\ pos_value'[idx] = pre_call.pos[idx]
       /\ arguments' = arguments

\* C29: a container positional needs at least one value: when it finds no
\* non-empty token in the buffer it fails with too_few_arguments exactly as a
\* scalar positional does, and it neither clears nor otherwise changes its
\* target before failing.
C29_ContainerTooFew == [][(pc = "positionals") => ContainerWithoutTokenStep]_vars

C29_Witness ==
    /\ Threw
    /\ LastStep = <<"positionals", 2>>
    /\ positional_option_calls[2].container
    /\ error.kind = "too_few_arguments"
    /\ error.n = 2
    /\ pos_value[2] = <<<<"d">>>>
    /\ Len(pos_value[1]) = 1 /\ pos_value[1] # <<"d">>

\* s is t with some of its characters deleted.
RECURSIVE IsSubsequence(_, _)
IsSubsequence(s, t) ==
    IF s = Empty THEN TRUE
    ELSE IF t = Empty THEN FALSE
    ELSE IF s[1] = t[1] THEN IsSubsequence(Tail(s), Tail(t))
    ELSE IsSubsequence(s, Tail(t))

\* Where the first "--" of the command line is, past its end when there is
\* none.
MarkerIndex ==
    LET places == {j \in 1..Len(cmd_arguments) : IsMarker(cmd_arguments[j])}
    IN  IF places = {} THEN Len(cmd_arguments) + 1
        ELSE CHOOSE j \in places : \A k \in places : j <= k

\* The buffer is as long as the command line, end_of_options_it is where
\* the first "--" of the command line is, and every token is the original
\* one, empty, or a single-dash original with characters deleted.
TokensInPlace ==
    /\ Len(arguments) = Len(cmd_arguments)
    /\ pc # "begin" => end_of_options_it = MarkerIndex
    /\ \A i \in 1..Len(cmd_arguments) :
           \/ arguments[i] = cmd_arguments[i]
           \/ arguments[i] = Empty
           \/ /\ SingleDashToken(cmd_arguments[i])
              /\ IsSubsequence(arguments[i], cmd_arguments[i])

\* A token changes into the empty sentinel, or, in a step of the flags, into
\* itself with one character deleted.
TokensChangeInPlace ==
    \A i \in 1..Len(arguments) :
        \/ arguments'[i] = arguments[i]
        \/ arguments'[i] = Empty
        \/ /\ pc = "flags"
           /\ Len(arguments'[i]) = Len(arguments[i]) - 1
           /\ IsSubsequence(arguments'[i], arguments[i])

\* C27: consumption never removes or reorders tokens: in every state of a
\* parse the buffer is as long as the token list given, the end-of-options
\* marker designates the same index, and the token at each index is its
\* original text, the empty sentinel, or, only through the removal of a short
\* flag, its original text with some characters deleted.
C27_TokensStayInPlace == [][TokensInPlace' /\ TokensChangeInPlace]_vars

C27_Witness ==
    /\ Finished("flags")
    /\ end_of_options_it <= Len(arguments)
    /\ \E i, j \in 1..Len(arguments) :
          /\ arguments[i] \notin {cmd_arguments[i], Empty}
          /\ arguments[j] = Empty /\ cmd_arguments[j] # Empty /\ j < end_of_options_it

\* The token with the first occurrence of the letter c deleted, the empty
\* sentinel when only the dash is left.
WithoutFirst(tok, c) ==
    LET n == CHOOSE n \in 1..Len(tok) : tok[n] = c /\ \A m \in 1..(n - 1) : tok[m] # c
        rest == SubSeq(tok, 1, n - 1) \o SubSeq(tok, n + 1, Len(tok))
    IN  IF rest = <<Dash>> THEN Empty ELSE rest

\* The step of a flag stops at the first form it finds: with a single-dash
\* token that holds the letter in the buffer, the first such token loses one
\* occurrence of the letter and every other token, a token of the long form
\* too, stays; with none, the first token of the long form before "--" is
\* blanked and every other token stays.
FlagStopsStep ==
    LET flag == flag_calls[idx]
        short == {j \in 1..Len(arguments) :
                     /\ SingleDashToken(arguments[j])
                     /\ \E n \in 2..Len(arguments[j]) : arguments[j][n] = flag.short_id}
        long == {j \in 1..Len(arguments) :
                    /\ flag.long_id # Empty
                    /\ j < end_of_options_it
                    /\ arguments[j] = <<Dash, Dash>> \o flag.long_id}
        Changes(first, now) ==
            arguments' = [arguments EXCEPT ![first] = now]
    IN  IF short # {}
        THEN \E first \in short :
                 /\ \A j \in short : first <= j
                 /\ Changes(first, WithoutFirst(arguments[first], flag.short_id))
        ELSE IF long # {}
        THEN \E first \in long :
                 /\ \A j \in long : first <= j
                 /\ Changes(first, Empty)
        ELSE arguments' = arguments

\* Token j of the command line is no occurrence of an option and does not
\* follow one.
NotOfAnOption(j) ==
    \A k \in 1..Len(option_calls) :
        /\ ~OccurrenceOf(option_calls[k], cmd_arguments[j])
        /\ j > 1 => ~OccurrenceOf(option_calls[k], cmd_arguments[j - 1])

\* Where the command line gives the flag before the first "--": token and
\* place of its letter in a single-dash token, and token and 0 for its long
\* form.
GivenAt(flag) ==
    {p \in (1..Len(cmd_arguments)) \X (0..4) :
        /\ p[1] < MarkerIndex
        /\ NotOfAnOption(p[1])
        /\ IF p[2] = 0
           THEN flag.long_id # Empty /\ cmd_arguments[p[1]] = <<Dash, Dash>> \o flag.long_id
           ELSE /\ SingleDashToken(cmd_arguments[p[1]])
                /\ 1 < p[2] /\ p[2] <= Len(cmd_arguments[p[1]])
                /\ cmd_arguments[p[1]][p[2]] = flag.short_id}

\* When a flag is given twice before "--", the check for unknown identifiers,
\* once reached, throws.
GivenTwiceFails ==
    \A k \in 1..Len(flag_calls) :
        /\ Cardinality(GivenAt(flag_calls[k])) >= 2
        /\ Ran("unknown_ids", 1)
        => /\ Threw
           /\ LastStep = <<"unknown_ids", 1>>
           /\ error.kind = "unknown_option"

\* C28: a flag operation stops at the first form it finds: found by its short
\* form, the long form is not searched and a --name token of the flag before
\* "--" stays in the buffer, and a short match deletes one occurrence of the
\* letter from the first single-dash token that holds it; so a flag given
\* twice (short and long, or the letter twice) makes parse() fail in the
\* check for unknown identifiers.
C28_FlagFoundOnce == [][((pc = "flags") => FlagStopsStep) /\ GivenTwiceFails']_vars

C28_Witness ==
    /\ Threw
    /\ LastStep = <<"unknown_ids", 1>>
    /\ cmd_arguments = <<<<"-", "f", "f">>, <<"-", "f">>, <<"-", "-", "f", "l">>>>
    /\ arguments = <<<<"-", "f">>, <<"-", "f">>, <<"-", "-", "f", "l">>>>
    /\ error.arg = <<"-", "f">>

\* A step of a scalar option whose first match is the bare identifier with a
\* position before "--" next: what that position holds is the value, whatever
\* it is, both tokens are blanked, a value that coerces is what the target
\* holds when no other token is an occurrence of the option, and one that
\* does not is a user_input_error quoting it.
SeparateValueStep ==
    LET config == option_calls[idx]
        m == FirstMatch(config)
        V == arguments[m.at + 1]
        others == {j \in 1..Len(arguments) :
                      /\ j < end_of_options_it
                      /\ j \notin {m.at, m.at + 1}
                      /\ OccurrenceOf(config, arguments[j])}
    IN  (/\ m.at # 0
         /\ ~config.container
         /\ Len(arguments[m.at]) = m.id_size
         /\ m.at + 1 < end_of_options_it)
        => /\ arguments'[m.at] = Empty
           /\ arguments'[m.at + 1] = Empty
           /\ IF Coerces(V, config.type)
              THEN others = {}
                   => /\ opt_value'[idx] =
                             parse_scalar_value(DefaultValue(config.type), V, config.type).value
                      /\ error'.kind \in {"none", "validation_error"}
              ELSE /\ pc' = "error"
                   /\ error'.kind = "user_input_error"
                   /\ error'.arg = V
                   /\ opt_value'[idx] = opt_value[idx]

\* The token after the first bare -a before "--", the value of option a: it
\* is the value when it is -k or -f, and then option k, which the command
\* line gives nowhere else, keeps what it held, and flag f, which the command
\* line gives nowhere else, is not set.
DashValueNotMatched ==
    \A i \in 1..Len(cmd_arguments) :
        (/\ i + 1 < MarkerIndex
         /\ cmd_arguments[i] = <<"-", "a">>
         /\ \A j \in 1..(i - 1) : ~OccurrenceOf(option_calls[1], cmd_arguments[j])
         /\ Ran("options", 1))
        => /\ opt_value[1] = cmd_arguments[i + 1]
           /\ (/\ Ran("options", 2)
               /\ \A j \in 1..(MarkerIndex - 1) :
                      j # i + 1 => ~OccurrenceOf(option_calls[2], cmd_arguments[j]))
                  => opt_value[2] = pre_call.opt[2]
           /\ (/\ Finished("flags")
               /\ \A j \in 1..Len(cmd_arguments) :
                      j # i + 1 => cmd_arguments[j] # <<"-", "f">>)
                  => ~flag_value["f"]

\* C30: in the separate form the value of an option is what the token right
\* after the identifier holds when the value is extracted, whenever that
\* position is before "--": it is the value even when it begins with a dash,
\* and is then not matched as an identifier of its own later, and even when it
\* is the empty sentinel an earlier consumption left, and then the empty
\* string is coerced.
C30_NextTokenIsValue ==
    [][((pc = "options") => SeparateValueStep) /\ DashValueNotMatched']_vars

C30_Witness ==
    /\ Returned
    /\ cmd_arguments = <<<<"-", "k">>, <<"-", "a", "1">>, <<"1">>>>
    /\ opt_value = <<<<"1">>, Empty>>
    /\ pos_value = <<<<<<"1">>>>>>

\* parse() has ended: it returned or an exception left it.
Terminated == pc \in {"done", "error"}

\* An iteration of a container's while loop after which the loop goes on.
LoopGoesOn == pc \in {"option_loop", "positional_loop"} /\ pc' = pc /\ frame'.id = frame.id

\* The iteration blanks a token that was not empty, or moves the position of
\* the search forward.
IterationAdvances ==
    \/ \E j \in 1..Len(arguments) : arguments[j] # Empty /\ arguments'[j] = Empty
    \/ frame'.it > frame.it

\* A step of parse(): it is taken before parse() has ended and while no
\* exception was thrown, it ends parse() with an exception exactly when it
\* throws one, and when it is an iteration of a loop that goes on it advances.
RunningStep ==
    /\ ~Terminated
    /\ error = NoError
    /\ (pc' = "error") <=> (error' # NoError)
    /\ LoopGoesOn => IterationAdvances

\* C31: parse() terminates for every token list and every set of declared
\* entities, by returning or by raising one error: every iteration of the
\* loop of a container option and of a container positional blanks a token
\* that was not empty or moves the position of the search forward, so neither
\* loop runs forever.
C31_Terminates == <>Terminated /\ [][RunningStep]_vars

C31_Witness ==
    /\ Returned
    /\ option_calls[1].container
    /\ cmd_arguments = <<<<"-", "k", "1">>, <<"-", "k", "1">>, <<"a">>>>
    /\ opt_value[1] = <<<<"1">>, <<"1">>>>
    /\ pos_value[1] = <<<<"a">>>>
    /\ arguments = <<Empty, Empty, Empty>>

\* The loops run one iteration per step do what the calls do as one step:
\* when a container's call is left, the buffer, the target, the counter and
\* the exception are those of get_option and of get_positional_option.
LoopsAgreeWithCallsStep ==
    LET OptionLeft(r) ==
            /\ arguments' = r.args
            /\ opt_value'[idx] = r.value
            /\ error' = r.err
        PositionalLeft(r) ==
            /\ arguments' = r.args
            /\ pos_value'[idx] = r.value
            /\ positional_option_count' = r.count
            /\ error' = r.err
    IN  /\ (pc = "option_loop" /\ pc' # pc)
               => OptionLeft(get_option(frame.args, end_of_options_it, frame.value,
                                    option_calls[idx]))
        /\ (pc = "positional_loop" /\ pc' # pc)
               => PositionalLeft(get_positional_option(frame.args, frame.value, frame.count,
                                                   positional_option_calls[idx],
                                                   Len(positional_option_calls)))

LoopsAgreeWithCalls == [][LoopsAgreeWithCallsStep]_vars

====
